---- MODULE Spec2Model ----
(***************************************************************************)
(* Graph layout and cycle resolution of the Design-A-Graph application:    *)
(* normalize, hasCycle, breakCycles, ensureAcyclicGraph, topoSort, the     *)
(* GraphView layout effect and optimizeLayerOrdering, the checklist of     *)
(* ChecklistView, handleDeleteNode and the /api/gemini handler, translated *)
(* from the TypeScript sources.                                            *)
(***************************************************************************)
EXTENDS Integers, Sequences, FiniteSets, TLC

VARIABLES
  pc,               \* "idle" (graphData is null), "loaded", "laidOut"
  raw,              \* the parsed JSON handed to normalize
  normalized,       \* normalize's result, handed to ensureAcyclicGraph
  graphData,        \* App's graphData, GraphView's data prop
  topoResult,       \* what topoSort(data) did in the layout effect
  sortedNodeIds,    \* the order the layout effect then uses
  layers,           \* the Map nodeId -> layer
  nodesByLayer,     \* the seeded layers handed to optimizeLayerOrdering
  optimizedLayers,  \* what optimizeLayerOrdering did
  error,            \* App's error state, "" for null
  checklist,        \* App's sortedNodeIds memo
  viewport,         \* clientWidth and clientHeight of the svg's parent
  positionedNodes,  \* GraphView's positionedNodes state
  links,            \* the rendered edges: sibling indices and path points
  firstRun,         \* what the first run of the two effects produced
  completedNodes,   \* the completedNodes prop of ChecklistView
  lastClick,        \* the last click on a checkbox of ChecklistView
  api               \* the /api/gemini handler serving one request

vars == <<pc, raw, normalized, graphData, topoResult, sortedNodeIds, layers,
          nodesByLayer, optimizedLayers, error, checklist, viewport,
          positionedNodes, links, firstRun,
          completedNodes, lastClick, api>>

(***************************************************************************)
(* Bounds of the explored inputs.                                          *)
(***************************************************************************)
MaxNodes == 3
MaxEdges == 2
MaxLayerNodes == 2

\* Node ids the inputs are drawn from.
NodeIds == {"A", "B", "C"}

\* A field that is absent from a raw record (undefined / null in the JSON).
Absent == "<absent>"
\* A slot of the sparse array nodesByLayer: an array of nodes, or empty.
Slot(nodes) == [hole |-> FALSE, nodes |-> nodes]
HoleSlot == [hole |-> TRUE, nodes |-> <<>>]
\* Node.y when the optional field is not set.
UndefinedY == -1
\* Node.moduleType when the optional field is not set.
NoModuleType == "<undefined>"

(***************************************************************************)
(* Sequence helpers (Array.prototype.filter / find / includes).            *)
(***************************************************************************)
RECURSIVE SelectIdx(_, _, _)
\* the indices i..Len(s) of s, in order, whose element is in `keep`
SelectIdx(s, keep, i) ==
  IF i > Len(s) THEN <<>>
  ELSE IF s[i] \in keep THEN <<s[i]>> \o SelectIdx(s, keep, i + 1)
  ELSE SelectIdx(s, keep, i + 1)

Range(s) == {s[i] : i \in DOMAIN s}

\* Array.prototype.filter with the predicate given as the set of kept elements
Filter(s, keep) == SelectIdx(s, keep, 1)

IdsOf(nodes) == [i \in DOMAIN nodes |-> nodes[i].id]

NodeIdSet(graph) == {graph.nodes[i].id : i \in DOMAIN graph.nodes}

\* Array.prototype.find(e => e.source === u && e.target === v): first match
FirstEdgeIndex(edges, u, v) ==
  LET hits == {i \in DOMAIN edges : edges[i].source = u /\ edges[i].target = v}
  IN IF hits = {} THEN 0 ELSE CHOOSE i \in hits : \A j \in hits : i <= j

(***************************************************************************)
(* parseDocumentToGraph.normalize (services/geminiService.ts).             *)
(* A raw element is [kind, ...]: kind is "object", "string" or "null", the *)
(* JSON value it is.  A raw node carries text (the string itself when it   *)
(* is one), id and outputs; a raw edge carries id, source, target, label.  *)
(* A field of value Absent is missing from the JSON record.                *)
(***************************************************************************)
\* n.outputs when it is no array, and when it is the array `items`
NoOutputs == [isArray |-> FALSE, items |-> <<>>]
OutputsArray(items) == [isArray |-> TRUE, items |-> items]

\* `node-${idx + 1}` for the 0-based idx = i - 1
SyntheticNodeId(i) ==
  <<"node-1", "node-2", "node-3", "node-4", "node-5", "node-6">>[i]

\* `edge-${idx + 1}` for the 0-based idx = i - 1
SyntheticEdgeId(i) ==
  <<"edge-1", "edge-2", "edge-3", "edge-4", "edge-5", "edge-6">>[i]

\* String(x ?? dflt)
OrElse(x, dflt) == IF x = Absent THEN dflt ELSE x

\* the node of the string branch, and the node coerced from a record
normalizeNodes(rawNodes) ==
  [i \in DOMAIN rawNodes |->
     IF rawNodes[i].kind = "string"
     THEN [id |-> SyntheticNodeId(i),
           label |-> rawNodes[i].text,
           outputs |-> <<>>,
           y |-> UndefinedY,
           moduleType |-> NoModuleType]
     ELSE [id |-> OrElse(rawNodes[i].id, SyntheticNodeId(i)),
           label |-> OrElse(rawNodes[i].id, SyntheticNodeId(i)),
           outputs |-> IF rawNodes[i].outputs.isArray
                       THEN rawNodes[i].outputs.items ELSE <<>>,
           y |-> UndefinedY,
           moduleType |-> NoModuleType]]

\* a string element has none of the fields: every one of them is undefined
coerceEdges(rawEdges) ==
  [i \in DOMAIN rawEdges |->
     [id |-> OrElse(rawEdges[i].id, SyntheticEdgeId(i)),
      source |-> OrElse(rawEdges[i].source, ""),
      target |-> OrElse(rawEdges[i].target, ""),
      label |-> OrElse(rawEdges[i].label, "")]]

\* .filter(e => e.source && e.target): only the empty string is falsy
normalizeEdges(rawEdges) ==
  LET coerced == coerceEdges(rawEdges)
  IN Filter(coerced, {e \in Range(coerced) : e.source # "" /\ e.target # ""})

\* n.id and e.id read a property of null: a TypeError leaves normalize
normalizeThrows(input) ==
  \/ \E i \in DOMAIN input.nodes : input.nodes[i].kind = "null"
  \/ \E i \in DOMAIN input.edges : input.edges[i].kind = "null"

\* the graph normalize returns when it returns
normalize(input) ==
  [nodes |-> normalizeNodes(input.nodes), edges |-> normalizeEdges(input.edges)]

(***************************************************************************)
(* hasCycle (utils/layoutUtils.ts).                                        *)
(***************************************************************************)
RECURSIVE TargetsFrom(_, _, _)
\* the targets of the edges i..Len(edges) whose source is u, in edge order
TargetsFrom(edges, u, i) ==
  IF i > Len(edges) THEN <<>>
  ELSE IF edges[i].source = u
       THEN <<edges[i].target>> \o TargetsFrom(edges, u, i + 1)
       ELSE TargetsFrom(edges, u, i + 1)

\* adjList: Map<string, string[]>, one key per node id
hasCycleAdjList(graph) ==
  [u \in NodeIdSet(graph) |-> TargetsFrom(graph.edges, u, 1)]

\* adjList.get(nodeId) || []
NeighborsOf(adjList, nodeId) ==
  IF nodeId \in DOMAIN adjList THEN adjList[nodeId] ELSE <<>>

RECURSIVE hasCycleDfs(_, _, _), hasCycleNeighbors(_, _, _, _)
\* st = [visited, recStack, found]; found is dfs's return value
hasCycleDfs(adjList, nodeId, st) ==
  LET entered == [st EXCEPT !.visited = @ \cup {nodeId},
                            !.recStack = @ \cup {nodeId}]
      after == hasCycleNeighbors(adjList, nodeId, 1, entered)
  IN IF after.found THEN after
     ELSE [after EXCEPT !.recStack = @ \ {nodeId}]

\* Variant: an edge to any visited node is taken for a cycle.
hasCycleNeighborsAnyVisited(adjList, nodeId, i, st) ==
  LET neighbors == NeighborsOf(adjList, nodeId)
  IN IF i > Len(neighbors) THEN st
     ELSE LET neighbor == neighbors[i]
          IN IF neighbor \notin st.visited
             THEN LET r == hasCycleDfs(adjList, neighbor, st)
                  IN IF r.found THEN r
                     ELSE hasCycleNeighbors(adjList, nodeId, i + 1, r)
             ELSE [st EXCEPT !.found = TRUE]

hasCycleNeighbors(adjList, nodeId, i, st) ==
  LET neighbors == NeighborsOf(adjList, nodeId)
  IN IF i > Len(neighbors) THEN st
     ELSE LET neighbor == neighbors[i]
          IN IF neighbor \notin st.visited
             THEN LET r == hasCycleDfs(adjList, neighbor, st)
                  IN IF r.found THEN r
                     ELSE hasCycleNeighbors(adjList, nodeId, i + 1, r)
             ELSE IF neighbor \in st.recStack
                  THEN [st EXCEPT !.found = TRUE]
                  ELSE hasCycleNeighbors(adjList, nodeId, i + 1, st)

RECURSIVE hasCycleFrom(_, _, _, _)
\* for (const node of nodes) if (!visited.has(node.id)) if (dfs(node.id)) return true
hasCycleFrom(adjList, nodes, i, st) ==
  IF i > Len(nodes) THEN FALSE
  ELSE IF nodes[i].id \in st.visited
       THEN hasCycleFrom(adjList, nodes, i + 1, st)
       ELSE LET r == hasCycleDfs(adjList, nodes[i].id, st)
            IN IF r.found THEN TRUE
               ELSE hasCycleFrom(adjList, nodes, i + 1, r)

hasCycle(graph) ==
  hasCycleFrom(hasCycleAdjList(graph), graph.nodes, 1,
               [visited |-> {}, recStack |-> {}, found |-> FALSE])

(***************************************************************************)
(* breakCycles (utils/layoutUtils.ts).                                     *)
(***************************************************************************)
RECURSIVE Dedup(_, _)
\* insertion order of a Set<string> filled from the sequence s
Dedup(s, seen) ==
  IF s = <<>> THEN <<>>
  ELSE IF Head(s) \in seen THEN Dedup(Tail(s), seen)
       ELSE <<Head(s)>> \o Dedup(Tail(s), seen \cup {Head(s)})

\* adjList: Map<string, Set<string>>
breakCyclesAdjList(graph) ==
  [u \in NodeIdSet(graph) |-> Dedup(TargetsFrom(graph.edges, u, 1), {})]

\* Variant: the find compares the endpoints the wrong way round.
FindEdgeIdSwapped(edges, nodeId, neighbor) ==
  LET i == FirstEdgeIndex(edges, neighbor, nodeId)
  IN IF i = 0 THEN "" ELSE edges[i].id

\* validEdges.find(e => e.source === nodeId && e.target === neighbor)?.id
FindEdgeId(edges, nodeId, neighbor) ==
  LET i == FirstEdgeIndex(edges, nodeId, neighbor)
  IN IF i = 0 THEN "" ELSE edges[i].id

\* the back edge nodeId -> neighbor: mark the found edge id, drop the adjacency
MarkBackEdge(edges, nodeId, neighbor, st) ==
  LET edgeId == FindEdgeId(edges, nodeId, neighbor)
  IN [st EXCEPT
        !.edgesToRemove = IF edgeId # "" THEN @ \cup {edgeId} ELSE @,
        !.adjList = [@ EXCEPT ![nodeId] =
                        Filter(@, Range(@) \ {neighbor})]]

RECURSIVE breakCyclesDfs(_, _, _), breakCyclesNeighbors(_, _, _, _, _)
\* st = [visited, recStack, adjList, edgesToRemove]
breakCyclesDfs(edges, nodeId, st) ==
  LET entered == [st EXCEPT !.visited = @ \cup {nodeId},
                            !.recStack = @ \cup {nodeId}]
      \* Array.from(adjList.get(nodeId) || []): a snapshot
      neighbors == NeighborsOf(entered.adjList, nodeId)
      after == breakCyclesNeighbors(edges, nodeId, neighbors, 1, entered)
  IN [after EXCEPT !.recStack = @ \ {nodeId}]

\* Variant: every edge to an already visited node is taken for a back edge.
breakCyclesNeighborsAnyVisited(edges, nodeId, neighbors, i, st) ==
  IF i > Len(neighbors) THEN st
  ELSE LET neighbor == neighbors[i]
       IN IF neighbor \notin st.visited
          THEN breakCyclesNeighbors(edges, nodeId, neighbors, i + 1,
                                    breakCyclesDfs(edges, neighbor, st))
          ELSE breakCyclesNeighbors(edges, nodeId, neighbors, i + 1,
                                    MarkBackEdge(edges, nodeId, neighbor, st))

breakCyclesNeighbors(edges, nodeId, neighbors, i, st) ==
  IF i > Len(neighbors) THEN st
  ELSE LET neighbor == neighbors[i]
       IN IF neighbor \notin st.visited
          THEN breakCyclesNeighbors(edges, nodeId, neighbors, i + 1,
                                    breakCyclesDfs(edges, neighbor, st))
          ELSE IF neighbor \in st.recStack
               THEN breakCyclesNeighbors(edges, nodeId, neighbors, i + 1,
                                         MarkBackEdge(edges, nodeId, neighbor, st))
               ELSE breakCyclesNeighbors(edges, nodeId, neighbors, i + 1, st)

RECURSIVE breakCyclesFrom(_, _, _, _)
\* for (const node of nodes) if (!visited.has(node.id)) dfs(node.id)
breakCyclesFrom(edges, nodes, i, st) ==
  IF i > Len(nodes) THEN st
  ELSE IF nodes[i].id \in st.visited
       THEN breakCyclesFrom(edges, nodes, i + 1, st)
       ELSE breakCyclesFrom(edges, nodes, i + 1,
                            breakCyclesDfs(edges, nodes[i].id, st))

edgesToRemove(graph) ==
  breakCyclesFrom(graph.edges, graph.nodes, 1,
                  [visited |-> {}, recStack |-> {},
                   adjList |-> breakCyclesAdjList(graph),
                   edgesToRemove |-> {}]).edgesToRemove

\* Variant: a back edge is reversed in place instead of being dropped.
breakCyclesReversing(graph) ==
  LET remove == edgesToRemove(graph)
  IN [nodes |-> graph.nodes,
      edges |-> [i \in DOMAIN graph.edges |->
                   IF graph.edges[i].id \in remove
                   THEN [graph.edges[i] EXCEPT !.source = graph.edges[i].target,
                                               !.target = graph.edges[i].source]
                   ELSE graph.edges[i]]]

breakCycles(graph) ==
  LET remove == edgesToRemove(graph)
  IN [nodes |-> graph.nodes,
      edges |-> Filter(graph.edges,
                       {e \in Range(graph.edges) : e.id \notin remove})]

ensureAcyclicGraph(graph) ==
  IF ~hasCycle(graph) THEN graph ELSE breakCycles(graph)

(***************************************************************************)
(* topoSort (utils/graphUtils, Kahn's algorithm).  The result is           *)
(* [threw, ids]: threw is TRUE when `Graph has a cycle` is thrown.         *)
(***************************************************************************)
RECURSIVE KnownTargetsFrom(_, _, _, _)
\* adjList.get(u): targets of the edges from u whose two endpoints are keys
KnownTargetsFrom(edges, ids, u, i) ==
  IF i > Len(edges) THEN <<>>
  ELSE IF edges[i].source = u /\ edges[i].target \in ids
       THEN <<edges[i].target>> \o KnownTargetsFrom(edges, ids, u, i + 1)
       ELSE KnownTargetsFrom(edges, ids, u, i + 1)

topoSortAdjList(graph) ==
  [u \in NodeIdSet(graph) |->
     KnownTargetsFrom(graph.edges, NodeIdSet(graph), u, 1)]

topoSortInDegree(graph) ==
  [v \in NodeIdSet(graph) |->
     Cardinality({i \in DOMAIN graph.edges :
                    /\ graph.edges[i].source \in NodeIdSet(graph)
                    /\ graph.edges[i].target = v})]

RECURSIVE topoSortRelax(_, _, _)
\* adjList.get(u).forEach(v => { inDegree[v]--; if (inDegree[v] === 0) queue.push(v) })
\* st = [inDegree, queue, result]
topoSortRelax(targets, i, st) ==
  IF i > Len(targets) THEN st
  ELSE LET v == targets[i]
           d == st.inDegree[v] - 1
       IN topoSortRelax(targets, i + 1,
            [st EXCEPT !.inDegree[v] = d,
                       !.queue = IF d = 0 THEN Append(@, v) ELSE @])

RECURSIVE topoSortLoop(_, _)
\* while (queue.length > 0) { u = queue.shift(); result.push(u); ... }
topoSortLoop(adjList, st) ==
  IF st.queue = <<>> THEN st.result
  ELSE LET u == Head(st.queue)
       IN topoSortLoop(adjList,
            topoSortRelax(adjList[u], 1,
              [st EXCEPT !.queue = Tail(@), !.result = Append(@, u)]))

\* Variant: the queue is seeded with every node, not only the roots.
topoSortResultAllQueued(graph) ==
  topoSortLoop(topoSortAdjList(graph),
    [inDegree |-> topoSortInDegree(graph),
     queue |-> IdsOf(graph.nodes),
     result |-> <<>>])

topoSortResult(graph) ==
  LET nodeIds == IdsOf(graph.nodes)
      inDegree == topoSortInDegree(graph)
  IN topoSortLoop(topoSortAdjList(graph),
       [inDegree |-> inDegree,
        queue |-> Filter(nodeIds, {id \in Range(nodeIds) : inDegree[id] = 0}),
        result |-> <<>>])

topoSort(graph) ==
  LET result == topoSortResult(graph)
  IN IF Len(result) # Len(graph.nodes)
     THEN [threw |-> TRUE, ids |-> <<>>]
     ELSE [threw |-> FALSE, ids |-> result]

(***************************************************************************)
(* Array.prototype.sort with a comparator: stable, so for a comparator     *)
(* that is a strict weak order the result is the one stable sorted order.  *)
(* lt[i][j] is `comparator(items[i], items[j]) < 0`.                        *)
(***************************************************************************)
RECURSIVE SortInsert(_, _, _)
\* insert index x into the sorted index sequence s, behind its equals
SortInsert(s, x, lt) ==
  IF s = <<>> THEN <<x>>
  ELSE IF lt[x][s[Len(s)]]
       THEN Append(SortInsert(SubSeq(s, 1, Len(s) - 1), x, lt), s[Len(s)])
       ELSE Append(s, x)

RECURSIVE SortIndices(_, _, _)
SortIndices(n, i, lt) ==
  IF i = 0 THEN <<>>
  ELSE SortInsert(SortIndices(n, i - 1, lt), i, lt)

StableSort(items, lt) ==
  LET perm == SortIndices(Len(items), Len(items), lt)
  IN [k \in DOMAIN items |-> items[perm[k]]]

(***************************************************************************)
(* GraphView layout effect (components/GraphView.tsx): layer assignment,   *)
(* grouping by layer and the seed order of each layer.                     *)
(***************************************************************************)
RECURSIVE SourcesInto(_, _, _)
\* edges.filter(e => e.target === nodeId).map(e => e.source)
SourcesInto(edges, nodeId, i) ==
  IF i > Len(edges) THEN <<>>
  ELSE IF edges[i].target = nodeId
       THEN <<edges[i].source>> \o SourcesInto(edges, nodeId, i + 1)
       ELSE SourcesInto(edges, nodeId, i + 1)

\* A Map<string, number>: keys in order of first insertion, and the values
EmptyMap == [keys |-> <<>>, at |-> [k \in {} |-> 0]]

MapHas(m, key) == key \in Range(m.keys)

RECURSIVE maxParentLayer(_, _, _, _)
\* parents.forEach: the largest layer of a parent that already has one, else -1
maxParentLayer(parents, i, m, best) ==
  IF i > Len(parents) THEN best
  ELSE IF MapHas(m, parents[i]) /\ m.at[parents[i]] > best
       THEN maxParentLayer(parents, i + 1, m, m.at[parents[i]])
       ELSE maxParentLayer(parents, i + 1, m, best)

\* layers.set(nodeId, value) on a Map: keys keep the order of first insertion
MapSet(m, key, value) ==
  [keys |-> IF MapHas(m, key) THEN m.keys ELSE Append(m.keys, key),
   at |-> [k \in Range(m.keys) \cup {key} |->
             IF k = key THEN value ELSE m.at[k]]]

RECURSIVE assignLayersFrom(_, _, _, _)
\* sortedNodeIds.forEach(nodeId => layers.set(nodeId, maxParentLayer + 1))
assignLayersFrom(ids, i, edges, m) ==
  IF i > Len(ids) THEN m
  ELSE assignLayersFrom(ids, i + 1, edges,
         MapSet(m, ids[i],
                maxParentLayer(SourcesInto(edges, ids[i], 1), 1, m, -1) + 1))

assignLayers(ids, edges) == assignLayersFrom(ids, 1, edges, EmptyMap)

\* nodes.find(n => n.id === nodeId): index of the first match, 0 when none
FindNodeIndex(nodes, nodeId) ==
  LET hits == {i \in DOMAIN nodes : nodes[i].id = nodeId}
  IN IF hits = {} THEN 0 ELSE CHOOSE i \in hits : \A j \in hits : i <= j

RECURSIVE NodesOfLayer(_, _, _, _)
\* the nodes pushed to nodesByLayer[layerIndex], in the Map's key order
NodesOfLayer(m, nodes, layerIndex, i) ==
  IF i > Len(m.keys) THEN <<>>
  ELSE LET k == FindNodeIndex(nodes, m.keys[i])
       IN IF m.at[m.keys[i]] = layerIndex /\ k # 0
          THEN <<nodes[k]>> \o NodesOfLayer(m, nodes, layerIndex, i + 1)
          ELSE NodesOfLayer(m, nodes, layerIndex, i + 1)

\* the sparse array built by layers.forEach: slot L is index L + 1
groupByLayer(m, nodes) ==
  LET used == {m.at[k] : k \in Range(m.keys)}
      top == IF used = {} THEN -1
             ELSE CHOOSE x \in used : \A y \in used : y <= x
  IN [j \in 1..(top + 1) |->
        IF (j - 1) \in used THEN Slot(NodesOfLayer(m, nodes, j - 1, 1))
        ELSE HoleSlot]

\* moduleTypePriority[a.moduleType || 'logic'] ?? 10
moduleTypePriority(moduleType) ==
  LET t == IF moduleType = NoModuleType THEN "logic" ELSE moduleType
  IN CASE t = "infra" -> 0
       [] t = "storage" -> 1
       [] t = "schema" -> 2
       [] t = "backend" -> 3
       [] t = "data-pipeline" -> 4
       [] t = "ml-model" -> 5
       [] t = "integration" -> 6
       [] t = "logic" -> 7
       [] t = "ui" -> 8
       [] OTHER -> 10

\* edges.filter(e => e.source === id || e.target === id).length
connections(edges, id) ==
  Cardinality({i \in DOMAIN edges : edges[i].source = id \/ edges[i].target = id})

\* the comparator of the seed sort is negative
seedBefore(a, b, edges) ==
  IF moduleTypePriority(a.moduleType) # moduleTypePriority(b.moduleType)
  THEN moduleTypePriority(a.moduleType) < moduleTypePriority(b.moduleType)
  ELSE connections(edges, b.id) < connections(edges, a.id)

seedSortLayer(layer, edges) ==
  StableSort(layer, [i \in DOMAIN layer |->
                       [j \in DOMAIN layer |-> seedBefore(layer[i], layer[j], edges)]])

\* nodesByLayer.forEach(layer => layer.sort(...)): forEach skips empty slots
seedSort(byLayer, edges) ==
  [j \in DOMAIN byLayer |->
     IF byLayer[j].hole THEN byLayer[j]
     ELSE Slot(seedSortLayer(byLayer[j].nodes, edges))]

(***************************************************************************)
(* calculateBarycenter and optimizeLayerOrdering (utils/layoutUtils.ts).   *)
(* A barycenter is the fraction [num, den] with den >= 1.                  *)
(***************************************************************************)
\* n.y || 0
YOrZero(n) == IF n.y = UndefinedY THEN 0 ELSE n.y

RECURSIVE SumY(_, _)
\* neighbors.reduce((acc, n) => acc + (n.y || 0), 0)
SumY(neighbors, i) ==
  IF i > Len(neighbors) THEN 0
  ELSE YOrZero(neighbors[i]) + SumY(neighbors, i + 1)

calculateBarycenter(neighbors) ==
  IF Len(neighbors) = 0 THEN [num |-> 0, den |-> 1]
  ELSE [num |-> SumY(neighbors, 1), den |-> Len(neighbors)]

RECURSIVE FoundIn(_, _, _)
\* ids.map(id => layer.find(n => n.id === id)).filter(n => !!n)
FoundIn(layer, ids, i) ==
  IF i > Len(ids) THEN <<>>
  ELSE LET k == FindNodeIndex(layer, ids[i])
       IN IF k # 0 THEN <<layer[k]>> \o FoundIn(layer, ids, i + 1)
          ELSE FoundIn(layer, ids, i + 1)

\* incoming.get(id) || [] (forward) and outgoing.get(id) || [] (backward)
NeighborIds(edges, id, forward) ==
  IF forward THEN SourcesInto(edges, id, 1) ELSE TargetsFrom(edges, id, 1)

\* aBarycenter - bBarycenter < 0
barycenterBefore(a, b, other, edges, forward) ==
  LET ab == calculateBarycenter(FoundIn(other, NeighborIds(edges, a.id, forward), 1))
      bb == calculateBarycenter(FoundIn(other, NeighborIds(edges, b.id, forward), 1))
  IN ab.num * bb.den < bb.num * ab.den

\* layer.sort(...) of one sweep step; `other` is the neighbouring slot.
\* Reading `.sort` of an empty slot throws, and so does `.find` of an empty
\* neighbouring slot, which the comparator reaches for a node with neighbours.
sortLayerThrows(slot, other, edges, forward) ==
  \/ slot.hole
  \/ /\ other.hole
     /\ Len(slot.nodes) >= 2
     /\ \E i \in DOMAIN slot.nodes :
          NeighborIds(edges, slot.nodes[i].id, forward) # <<>>

\* Variant: only the nodes that have a neighbour are kept and sorted.
sortLayerLinkedOnly(slot, other, edges, forward) ==
  LET layer == Filter(slot.nodes,
                      {n \in Range(slot.nodes) :
                         NeighborIds(edges, n.id, forward) # <<>>})
  IN Slot(StableSort(layer,
       [i \in DOMAIN layer |->
          [j \in DOMAIN layer |->
             barycenterBefore(layer[i], layer[j], other.nodes, edges, forward)]]))

sortLayer(slot, other, edges, forward) ==
  LET layer == slot.nodes
  IN Slot(StableSort(layer,
       [i \in DOMAIN layer |->
          [j \in DOMAIN layer |->
             barycenterBefore(layer[i], layer[j], other.nodes, edges, forward)]]))

RECURSIVE forwardSweep(_, _, _), backwardSweep(_, _, _)
\* st = [threw, layers]; for (let i = 1; i < optimized.length; i++), 0-based
forwardSweep(st, i, edges) ==
  IF st.threw \/ i + 1 > Len(st.layers) THEN st
  ELSE IF sortLayerThrows(st.layers[i + 1], st.layers[i], edges, TRUE)
       THEN [st EXCEPT !.threw = TRUE]
       ELSE forwardSweep(
              [st EXCEPT !.layers[i + 1] =
                 sortLayer(st.layers[i + 1], st.layers[i], edges, TRUE)],
              i + 1, edges)

\* for (let i = optimized.length - 2; i >= 0; i--), 0-based
backwardSweep(st, i, edges) ==
  IF st.threw \/ i < 0 THEN st
  ELSE IF sortLayerThrows(st.layers[i + 1], st.layers[i + 2], edges, FALSE)
       THEN [st EXCEPT !.threw = TRUE]
       ELSE backwardSweep(
              [st EXCEPT !.layers[i + 1] =
                 sortLayer(st.layers[i + 1], st.layers[i + 2], edges, FALSE)],
              i - 1, edges)

\* const iterations = 3
iterations == 3

RECURSIVE sweeps(_, _, _)
sweeps(st, iter, edges) ==
  IF iter >= iterations THEN st
  ELSE sweeps(backwardSweep(forwardSweep(st, 1, edges),
                            Len(st.layers) - 2, edges),
              iter + 1, edges)

\* [threw, layers]: threw is TRUE when a TypeError escapes
optimizeLayerOrdering(byLayer, edges) ==
  sweeps([threw |-> FALSE, layers |-> byLayer], 0, edges)

(***************************************************************************)
(* Node sizes and positions (components/GraphView.tsx).                    *)
(***************************************************************************)
MIN_NODE_WIDTH == 160
MAX_NODE_WIDTH == 320
PORT_SIZE == 12
MIN_PADDING_Y == 80
LAYER_START_X == 150

\* A text longer than MAX_NODE_WIDTH allows for a label.
LongText == "Set up backend infrastructure on AWS"

\* String.prototype.length of the strings that occur
StrLen(str) ==
  CASE str = "" -> 0
    [] str \in {"A", "B", "C", "D", "x", "y"} -> 1
    [] str = "log" -> 3
    [] str \in {"node-1", "node-2", "node-3", "node-4", "node-5", "node-6",
                "edge-1", "edge-2", "edge-3", "edge-4", "edge-5", "edge-6"} -> 6
    [] str = LongText -> 36

\* Math.max(0, ...values) and Math.max / Math.min of two numbers
MaxOrZero(values) ==
  IF values = {} THEN 0
  ELSE LET m == CHOOSE x \in values : \A y \in values : y <= x
       IN IF m < 0 THEN 0 ELSE m
MathMax(a, b) == IF a >= b THEN a ELSE b
MathMin(a, b) == IF a <= b THEN a ELSE b

RECURSIVE LabelsInto(_, _, _)
\* the labels of the edges i.. into nodeId, in edge order
LabelsInto(edges, nodeId, i) ==
  IF i > Len(edges) THEN <<>>
  ELSE IF edges[i].target = nodeId
       THEN <<edges[i].label>> \o LabelsInto(edges, nodeId, i + 1)
       ELSE LabelsInto(edges, nodeId, i + 1)

\* Variant: one entry per incoming edge.
inputsByNodeEveryEdge(data) ==
  [id \in NodeIdSet(data) |-> LabelsInto(data.edges, id, 1)]

\* inputsByNode: for each node id the distinct labels of its incoming edges
inputsByNode(data) ==
  [id \in NodeIdSet(data) |-> Dedup(LabelsInto(data.edges, id, 1), {})]

\* Map.set in a forEach over the nodes: the last node of an id wins
LastNodeOf(nodes, id) ==
  nodes[CHOOSE i \in DOMAIN nodes :
          /\ nodes[i].id = id
          /\ \A j \in DOMAIN nodes : nodes[j].id = id => j <= i]

\* Variant: the calculated width is used as it is.
nodeWidthsUnclamped(data) ==
  [id \in NodeIdSet(data) |->
     LET node == LastNodeOf(data.nodes, id)
         inputs == inputsByNode(data)[id]
         labelWidth == StrLen(node.label) * 8 + 60
         maxInputWidth == MaxOrZero({StrLen(i) * 7 + 30 : i \in Range(inputs)})
         maxOutputWidth ==
           MaxOrZero({StrLen(o) * 7 + 30 : o \in Range(node.outputs)})
         contentWidth == MathMax(maxInputWidth + maxOutputWidth, 120)
     IN MathMax(labelWidth, contentWidth)]

nodeWidths(data) ==
  [id \in NodeIdSet(data) |->
     LET node == LastNodeOf(data.nodes, id)
         inputs == inputsByNode(data)[id]
         labelWidth == StrLen(node.label) * 8 + 60
         maxInputWidth == MaxOrZero({StrLen(i) * 7 + 30 : i \in Range(inputs)})
         maxOutputWidth ==
           MaxOrZero({StrLen(o) * 7 + 30 : o \in Range(node.outputs)})
         contentWidth == MathMax(maxInputWidth + maxOutputWidth, 120)
         calculatedWidth == MathMax(labelWidth, contentWidth)
     IN MathMin(MAX_NODE_WIDTH, MathMax(MIN_NODE_WIDTH, calculatedWidth))]

nodeHeights(data) ==
  [id \in NodeIdSet(data) |->
     LET inputCount == Len(inputsByNode(data)[id])
         outputCount == Len(LastNodeOf(data.nodes, id).outputs)
         bodyHeight == MathMax(inputCount, outputCount) * 32
     IN MathMax(bodyHeight, 80) + 28]

\* nodeHeights.get(id) || 0
HeightOrZero(heights, id) == IF id \in DOMAIN heights THEN heights[id] ELSE 0

RECURSIVE SumHeights(_, _, _)
\* the heights of the first n nodes of the layer, plus `gap` after each
SumHeights(layer, n, heightOf) ==
  IF n = 0 THEN 0
  ELSE heightOf[n] + SumHeights(layer, n - 1, heightOf)

\* Math.max(maxNodeWidth + 120, Math.min(500, width / (numLayers + 1))); the
\* widths of Viewports divide evenly by every numLayers + 1 that occurs
PADDING_X(data, numLayers, view) ==
  MathMax(MaxOrZero(Range([i \in DOMAIN data.nodes |->
                             nodeWidths(data)[data.nodes[i].id]])) + 120,
          MathMin(500, view.width \div (numLayers + 1)))

\* nodes.map(node => ({...node, x, y})): optimized is the array of layers
newNodes(data, m, optimized, view) ==
  LET heights == nodeHeights(data)
      paddingX == PADDING_X(data, Len(optimized), view)
  IN [k \in DOMAIN data.nodes |->
        LET node == data.nodes[k]
            layerIndex == IF MapHas(m, node.id) THEN m.at[node.id] ELSE 0
            layer == IF layerIndex + 1 \in DOMAIN optimized
                     THEN optimized[layerIndex + 1].nodes ELSE <<>>
            found == FindNodeIndex(layer, node.id)
            heightOf == [i \in DOMAIN layer |-> HeightOrZero(heights, layer[i].id)]
            \* findIndex is -1 when the node is not in the layer
            yOffset == IF found = 0 THEN 0
                       ELSE SumHeights(layer, found - 1, heightOf)
                            + (found - 1) * MIN_PADDING_Y
            totalLayerHeight ==
              SumHeights(layer, Len(layer), heightOf)
              + MathMax(0, Len(layer) - 1) * MIN_PADDING_Y
            nodeHeight == HeightOrZero(heights, node.id)
        IN [id |-> node.id, label |-> node.label, outputs |-> node.outputs,
            moduleType |-> node.moduleType,
            x |-> LAYER_START_X + layerIndex * paddingX,
            y |-> (view.height \div 2) - (totalLayerHeight \div 2) + yOffset
                  + (nodeHeight \div 2)]]

(***************************************************************************)
(* The render effect (components/GraphView.tsx): ports, sibling groups and *)
(* edge paths.  Path end points are in px; control points are in 1/30 px,  *)
(* the unit in which dx * 0.5 and the sibling offsets are whole numbers.   *)
(***************************************************************************)
SIBLING_SPREAD == 8

\* the ports the node html shows: inputsByNode.get(d.id) || [] and d.outputs
nodePorts(d, data) ==
  [inputs |-> IF d.id \in NodeIdSet(data) THEN inputsByNode(data)[d.id] ELSE <<>>,
   outputs |-> d.outputs]

\* new Map(positionedNodes.map(n => [n.id, n])): the last node of an id wins
nodeMap(positioned) ==
  [id \in {positioned[i].id : i \in DOMAIN positioned} |->
     LastNodeOf(positioned, id)]

\* data.edges with both end nodes in nodeMap
linkData(data, positioned) ==
  Filter(data.edges,
         {e \in Range(data.edges) :
            /\ e.source \in DOMAIN nodeMap(positioned)
            /\ e.target \in DOMAIN nodeMap(positioned)})

\* a.id.localeCompare(b.id) < 0 on the edge ids that occur
localeCompareBefore(a, b) ==
  LET order == <<"edge-1", "edge-2", "edge-3", "edge-4", "edge-5", "edge-6">>
      rank(id) == CHOOSE k \in DOMAIN order : order[k] = id
  IN rank(a) < rank(b)

\* the comparator of a sibling group is negative; `other` is the end whose
\* node orders the group: "target" for a source group
siblingBefore(a, b, other, nodes) ==
  LET na == nodes[a[other]]
      nb == nodes[b[other]]
  IN IF na.y # nb.y THEN na.y < nb.y
     ELSE IF na.x # nb.x THEN na.x < nb.x
     ELSE localeCompareBefore(a.id, b.id)

\* the keys of sourceGroups (end = "source") or targetGroups, in Map order
groupKeys(linked, end) ==
  Dedup([i \in DOMAIN linked |-> <<linked[i][end], linked[i].label>>], {})

\* one group after arr.sort(...)
sortedGroup(linked, key, end, other, nodes) ==
  LET arr == Filter(linked, {e \in Range(linked) : <<e[end], e.label>> = key})
  IN StableSort(arr, [i \in DOMAIN arr |->
                        [j \in DOMAIN arr |->
                           siblingBefore(arr[i], arr[j], other, nodes)]])

RECURSIVE groupWrites(_, _, _, _, _, _)
\* the edgeMeta.set calls of all groups from the k-th on: [id, index, count]
groupWrites(linked, keys, k, end, other, nodes) ==
  IF k > Len(keys) THEN <<>>
  ELSE LET arr == sortedGroup(linked, keys[k], end, other, nodes)
       IN [i \in DOMAIN arr |->
             [id |-> arr[i].id, index |-> i - 1, count |-> Len(arr)]]
          \o groupWrites(linked, keys, k + 1, end, other, nodes)

\* the value the last write for the id left
lastWrite(writes, id) ==
  writes[CHOOSE i \in DOMAIN writes :
           /\ writes[i].id = id
           /\ \A j \in DOMAIN writes : writes[j].id = id => j <= i]

\* edgeMeta: Map edge id -> {sIndex, sCount, tIndex, tCount}
edgeMeta(linked, nodes) ==
  LET sWrites == groupWrites(linked, groupKeys(linked, "source"), 1,
                             "source", "target", nodes)
      tWrites == groupWrites(linked, groupKeys(linked, "target"), 1,
                             "target", "source", nodes)
  IN [id \in {linked[i].id : i \in DOMAIN linked} |->
        [sIndex |-> lastWrite(sWrites, id).index,
         sCount |-> lastWrite(sWrites, id).count,
         tIndex |-> lastWrite(tWrites, id).index,
         tCount |-> lastWrite(tWrites, id).count]]

\* indexOf on a list of port labels, 0-based, -1 when absent
PortIndex(ports, portLabel) ==
  LET hits == {i \in DOMAIN ports : ports[i] = portLabel}
  IN IF hits = {} THEN -1
     ELSE (CHOOSE i \in hits : \A j \in hits : i <= j) - 1

\* Variant: every port is at the height of the first row.
getPortPositionFirstRow(nodes, data, nodeId, portLabel, isOutput) ==
  IF nodeId \notin DOMAIN nodes THEN [x |-> 0, y |-> 0]
  ELSE LET node == nodes[nodeId]
           nodeHeight == nodeHeights(data)[nodeId]
           nodeWidth == nodeWidths(data)[nodeId]
           portIndex == IF isOutput THEN PortIndex(node.outputs, portLabel)
                        ELSE PortIndex(inputsByNode(data)[nodeId], portLabel)
           x == IF isOutput
                THEN node.x + (nodeWidth \div 2) + (PORT_SIZE \div 2)
                ELSE node.x - (nodeWidth \div 2) - (PORT_SIZE \div 2)
       IN IF portIndex = -1 THEN [x |-> node.x, y |-> node.y]
          ELSE [x |-> x, y |-> node.y - (nodeHeight \div 2) + 28 + 2 + 16]

\* the widths and heights that occur are even, so the halves are exact
getPortPosition(nodes, data, nodeId, portLabel, isOutput) ==
  IF nodeId \notin DOMAIN nodes THEN [x |-> 0, y |-> 0]
  ELSE LET node == nodes[nodeId]
           nodeHeight == nodeHeights(data)[nodeId]
           nodeWidth == nodeWidths(data)[nodeId]
           portIndex == IF isOutput THEN PortIndex(node.outputs, portLabel)
                        ELSE PortIndex(inputsByNode(data)[nodeId], portLabel)
           x == IF isOutput
                THEN node.x + (nodeWidth \div 2) + (PORT_SIZE \div 2)
                ELSE node.x - (nodeWidth \div 2) - (PORT_SIZE \div 2)
       IN IF portIndex = -1 THEN [x |-> node.x, y |-> node.y]
          ELSE [x |-> x,
                y |-> node.y - (nodeHeight \div 2) + 28 + 2
                      + (portIndex * 32) + 16]

Abs(n) == IF n < 0 THEN -n ELSE n

(***************************************************************************)
(* NodeEditor.getPortPosition (components/Rhino Grasshopper Node           *)
(* components/NodeEditor.tsx) for the port at portIndex (0-based, as        *)
(* findIndex gives it) of a node with the given numbers of inputs and       *)
(* outputs.  spacing = bodyHeight / (count + 1) need not be whole, so y is  *)
(* given as yTimes / per.                                                   *)
(***************************************************************************)
NodeEditor_getPortPosition(position, inputCount, outputCount, portIndex, isOutput) ==
  LET inputHeight == inputCount * 32
      outputHeight == outputCount * 32
      bodyHeight == MathMax(MathMax(inputHeight, outputHeight), 80)
      topBarHeight == 28
      count == IF isOutput THEN outputCount ELSE inputCount
  IN [x |-> IF isOutput THEN position.x + 160 + 6 ELSE position.x - 6,
      yTimes |-> (position.y + topBarHeight) * (count + 1)
                 + bodyHeight * (portIndex + 1),
      per |-> count + 1,
      bodyHeight |-> bodyHeight]

\* Variant: the sibling offset moves the whole curve, its ends included.
linkPathShifted(d, meta, nodes, data) ==
  LET sourcePt == getPortPosition(nodes, data, d.source, d.label, TRUE)
      targetPt == getPortPosition(nodes, data, d.target, d.label, FALSE)
      dx == Abs(targetPt.x - sourcePt.x)
      sShift == (2 * meta.sIndex - (meta.sCount - 1)) * (SIBLING_SPREAD \div 2)
      tShift == (2 * meta.tIndex - (meta.tCount - 1)) * (SIBLING_SPREAD \div 2)
  IN [start |-> [x |-> sourcePt.x, y |-> sourcePt.y + sShift],
      c1 |-> [x |-> 30 * sourcePt.x + 15 * dx, y |-> 30 * (sourcePt.y + sShift)],
      c2 |-> [x |-> 30 * targetPt.x - 15 * dx, y |-> 30 * (targetPt.y + tShift)],
      end |-> [x |-> targetPt.x, y |-> targetPt.y + tShift]]

\* the path of one link: M start C c1, c2, end
linkPath(d, meta, nodes, data) ==
  LET sourcePt == getPortPosition(nodes, data, d.source, d.label, TRUE)
      targetPt == getPortPosition(nodes, data, d.target, d.label, FALSE)
      dx == Abs(targetPt.x - sourcePt.x)
      \* 30 * controlPointOffset
      offset30 == 15 * dx
      \* 120 * spread = 120 * SIBLING_SPREAD * Math.min(1, dx / 120)
      spread120 == SIBLING_SPREAD * MathMin(120, dx)
      \* 2 * sCenter and 2 * tCenter
      sCenter2 == 2 * meta.sIndex - (meta.sCount - 1)
      tCenter2 == 2 * meta.tIndex - (meta.tCount - 1)
  IN [start |-> sourcePt,
      c1 |-> [x |-> 30 * sourcePt.x + offset30,
              y |-> 30 * sourcePt.y + (sCenter2 * spread120) \div 8],
      c2 |-> [x |-> 30 * targetPt.x - offset30,
              y |-> 30 * targetPt.y + (tCenter2 * spread120) \div 8],
      end |-> targetPt]

\* links.attr('d', ...): every link keeps its edge and meta, the path is new
updatePositions(linked, positioned, data) ==
  [k \in DOMAIN linked |->
     [edge |-> linked[k].edge,
      meta |-> linked[k].meta,
      path |-> linkPath(linked[k].edge, linked[k].meta, nodeMap(positioned), data)]]

\* the links the render effect draws
renderLinks(data, positioned) ==
  LET linked == linkData(data, positioned)
      meta == edgeMeta(linked, nodeMap(positioned))
  IN updatePositions([k \in DOMAIN linked |->
                        [edge |-> linked[k], meta |-> meta[linked[k].id],
                         path |-> <<>>]],
                     positioned, data)

(***************************************************************************)
(* The inputs: what the extraction service may answer.                     *)
(***************************************************************************)
SeqsUpTo(S, n) == UNION {[1..k -> S] : k \in 0..n}

RawNode(id, outputs) ==
  [kind |-> "object", text |-> Absent, id |-> id, outputs |-> outputs]

RawNodes == {RawNode(i, NoOutputs) : i \in NodeIds}

RawEdgeWith(id, s, t, label) ==
  [kind |-> "object", id |-> id, source |-> s, target |-> t, label |-> label]

RawEdge(s, t) == RawEdgeWith(Absent, s, t, Absent)

\* a JSON string or null where a record is expected
RawString(text) ==
  [kind |-> "string", text |-> text, id |-> Absent, outputs |-> NoOutputs]
RawNullNode ==
  [kind |-> "null", text |-> Absent, id |-> Absent, outputs |-> NoOutputs]
RawStringEdge ==
  [kind |-> "string", id |-> Absent, source |-> Absent, target |-> Absent,
   label |-> Absent]
RawNullEdge ==
  [kind |-> "null", id |-> Absent, source |-> Absent, target |-> Absent,
   label |-> Absent]

\* every edge between two ids; an id that is not in the node list dangles
RawEdges == {RawEdge(s, t) : s \in NodeIds, t \in NodeIds}

RawNodesOf(ids) == [i \in DOMAIN ids |-> RawNode(ids[i], NoOutputs)]

\* The three-cycle A -> B -> C -> A.
ThreeCycleInput ==
  [nodes |-> RawNodesOf(<<"A", "B", "C">>),
   edges |-> <<RawEdge("A", "B"), RawEdge("B", "C"), RawEdge("C", "A")>>]

\* A cycle closed by two parallel edges B -> A.
ParallelBackEdgeInput ==
  [nodes |-> RawNodesOf(<<"A", "B">>),
   edges |-> <<RawEdge("A", "B"), RawEdge("B", "A"), RawEdge("B", "A")>>]

\* An acyclic graph whose node list names A twice.
RepeatedNodeInput ==
  [nodes |-> RawNodesOf(<<"A", "A", "D", "B", "C">>),
   edges |-> <<RawEdge("D", "C"), RawEdge("C", "B"), RawEdge("A", "B")>>]

\* Records without ids, and edges that lack their source or their target.
IncompleteInput ==
  [nodes |-> RawNodesOf(<<Absent, "B">>),
   edges |-> <<RawEdge("node-1", "B"), RawEdge(Absent, "B"),
               RawEdge("B", Absent), RawEdge("B", "node-1")>>]

\* Explicit ids that are the synthetic ids of later records.
MixedIdInput ==
  [nodes |-> <<RawNode("node-2", NoOutputs), RawNode(Absent, NoOutputs),
               RawNode("B", NoOutputs)>>,
   edges |-> <<RawEdgeWith("edge-2", "node-2", "B", Absent),
               RawEdgeWith(Absent, "node-2", "B", Absent)>>]

\* A null among the nodes.
NullElementInput ==
  [nodes |-> <<RawNode("A", NoOutputs), RawNullNode>>, edges |-> <<>>]

\* Strings where records are expected.
StringElementsInput ==
  [nodes |-> <<RawString("x"), RawString(LongText)>>,
   edges |-> <<RawStringEdge, RawEdge("node-1", "node-2")>>]

\* Two layers of two nodes whose edges cross in the seed order.
CrossingInput ==
  [nodes |-> RawNodesOf(<<"A", "B", "C", "D">>),
   edges |-> <<RawEdge("A", "C"), RawEdge("A", "D"), RawEdge("B", "C")>>]

\* Answers beyond the enumerated bounds.
ScenarioInputs ==
  {ThreeCycleInput, ParallelBackEdgeInput, RepeatedNodeInput, IncompleteInput,
   MixedIdInput, NullElementInput, StringElementsInput, CrossingInput}

RawNodeLists == SeqsUpTo(RawNodes, MaxNodes)

RawEdgeLists == SeqsUpTo(RawEdges, MaxEdges)

EmptyGraph == [nodes |-> <<>>, edges |-> <<>>]
NoTopoResult == [threw |-> FALSE, ids |-> <<>>]
NoOptimized == [threw |-> FALSE, layers |-> <<>>]
NoRun == [done |-> FALSE]

\* clientWidth x clientHeight of the svg's parent; the first is also what
\* `|| 800` and `|| 600` give without a parent
Viewports == {[width |-> 800, height |-> 600], [width |-> 1800, height |-> 900]}
DefaultViewport == [width |-> 800, height |-> 600]

CycleMessage == "Graph contains a cycle and cannot be displayed as a checklist."
ParseMessage ==
  "Failed to parse document. The model may have returned an invalid structure."

(***************************************************************************)
(* The state machine.                                                      *)
(***************************************************************************)
\* the /api/gemini handler before a request
NoRequest ==
  [pc |-> "idle", candidates |-> <<>>, index |-> 0, status |-> 0,
   lastError |-> "null", calls |-> <<>>, responses |-> <<>>]

\* no checkbox was clicked yet
NoClick == [node |-> "", invoked |-> FALSE, tick |-> 0]

Init ==
  /\ pc = "idle"
  /\ raw = EmptyGraph
  /\ normalized = EmptyGraph
  /\ graphData = EmptyGraph
  /\ topoResult = NoTopoResult
  /\ sortedNodeIds = <<>>
  /\ layers = EmptyMap
  /\ nodesByLayer = <<>>
  /\ optimizedLayers = NoOptimized
  /\ error = ""
  /\ checklist = <<>>
  /\ viewport = DefaultViewport
  /\ positionedNodes = <<>>
  /\ links = <<>>
  /\ firstRun = NoRun
  /\ completedNodes = {}
  /\ lastClick = NoClick
  /\ api = NoRequest

\* App's sortedNodeIds memo for the graph: [ids, error]
sortedNodeIdsMemo(graph, err) ==
  LET topo == topoSort(graph)
  IN IF topo.threw THEN [ids |-> <<>>, error |-> CycleMessage]
     ELSE [ids |-> topo.ids, error |-> err]

\* parseDocumentToGraph, then App.handleGenerateGraph's setGraphData(data) or
\* setError(err.message), and the memo of the render that follows
ParseDocumentToGraph(input) ==
  /\ raw' = input
  /\ IF normalizeThrows(input)
     THEN /\ pc' = "failed"
          /\ error' = ParseMessage
          /\ UNCHANGED <<normalized, graphData, checklist>>
     ELSE LET graph == normalize(input)
              data == ensureAcyclicGraph(graph)
              memo == sortedNodeIdsMemo(data, "")
          IN /\ normalized' = graph
             /\ graphData' = data
             /\ checklist' = memo.ids
             /\ error' = memo.error
             /\ pc' = "loaded"
  /\ UNCHANGED <<topoResult, sortedNodeIds, layers, nodesByLayer, optimizedLayers,
                 viewport, positionedNodes, links, firstRun,
                 completedNodes, lastClick, api>>

\* App.handleGenerateGraph on the first load (graphData is still null)
GenerateGraph ==
  /\ pc = "idle"
  /\ \E ns \in RawNodeLists, es \in RawEdgeLists :
       ParseDocumentToGraph([nodes |-> ns, edges |-> es])

GenerateScenario ==
  /\ pc = "idle"
  /\ \E input \in ScenarioInputs : ParseDocumentToGraph(input)

\* GraphView's layout effect; a TypeError out of optimizeLayerOrdering ends
\* it before setPositionedNodes
LayoutEffect ==
  /\ pc = "loaded"
  /\ Len(graphData.nodes) # 0
  /\ LET topo == topoSort(graphData)
         order == IF topo.threw THEN IdsOf(graphData.nodes) ELSE topo.ids
         m == assignLayers(order, graphData.edges)
         seeded == seedSort(groupByLayer(m, graphData.nodes), graphData.edges)
         optimized == optimizeLayerOrdering(seeded, graphData.edges)
     IN /\ topoResult' = topo
        /\ sortedNodeIds' = order
        /\ layers' = m
        /\ nodesByLayer' = seeded
        /\ optimizedLayers' = optimized
        /\ positionedNodes' =
             IF optimized.threw THEN positionedNodes
             ELSE newNodes(graphData, m, optimized.layers, viewport)
  /\ pc' = "laidOut"
  /\ UNCHANGED <<raw, normalized, graphData, error, checklist, viewport, links,
                 firstRun,
                 completedNodes, lastClick, api>>

\* what one run of the two effects produced
RunOutput ==
  [done |-> TRUE, graph |-> graphData, viewport |-> viewport,
   layers |-> layers, optimizedLayers |-> optimizedLayers,
   widths |-> nodeWidths(graphData), heights |-> nodeHeights(graphData),
   positionedNodes |-> positionedNodes, links |-> links]

\* GraphView's render effect after setPositionedNodes
RenderEffect ==
  /\ pc = "laidOut"
  /\ Len(positionedNodes) # 0
  /\ links' = renderLinks(graphData, positionedNodes)
  /\ pc' = "rendered"
  /\ firstRun' = IF firstRun.done THEN firstRun
                 ELSE [RunOutput EXCEPT !.links = links']
  /\ UNCHANGED <<raw, normalized, graphData, topoResult, sortedNodeIds, layers,
                 nodesByLayer, optimizedLayers, error, checklist, viewport,
                 positionedNodes, completedNodes, lastClick, api>>

Next == GenerateGraph \/ GenerateScenario \/ LayoutEffect \/ RenderEffect

Spec == Init /\ [][Next]_vars

(***************************************************************************)
(* Rendering on its own: graphs with outputs and labels, a drag of a node, *)
(* a resize of the window and a second run of the effects.                 *)
(***************************************************************************)
MaxRenderEdges == 2
MaxUpdates == 1

\* where a drag may drop a node: event.x, event.y
DragPoints == {[x |-> 150, y |-> 300], [x |-> 316, y |-> 246]}

RenderRawEdges ==
  {RawEdgeWith(Absent, p[1], p[2], l) :
     p \in {<<"A", "B">>, <<"A", "C">>, <<"B", "C">>, <<"B", "A">>},
     l \in {"log", Absent}}

RenderRawNodeLists ==
  {<<RawNode("A", o), RawNode("B", NoOutputs)>> :
     o \in {NoOutputs, OutputsArray(<<"log">>), OutputsArray(<<"x", "log">>)}}
  \cup {<<RawNode("A", o), RawNode("B", NoOutputs), RawNode("C", NoOutputs)>> :
          o \in {NoOutputs, OutputsArray(<<"log">>)}}
  \cup {<<RawNode("C", NoOutputs), RawNode("B", OutputsArray(<<"log">>)),
           RawNode("A", NoOutputs)>>,
         <<RawString(LongText), RawNode("B", NoOutputs)>>}

\* Two edges that carry the same explicit id.
RepeatedEdgeIdInput ==
  [nodes |-> <<RawNode("A", OutputsArray(<<"log">>)), RawNode("B", NoOutputs),
               RawNode("C", NoOutputs)>>,
   edges |-> <<RawEdgeWith("edge-1", "A", "B", "log"),
               RawEdgeWith("edge-1", "A", "C", "log")>>]

\* Two edges between the same two nodes on the labels x and y, from a node
\* with three outputs, and a node with a long label.
PortsInput ==
  [nodes |-> <<RawNode("A", OutputsArray(<<"x", "y", "log">>)),
               RawNode("B", NoOutputs), RawString(LongText)>>,
   edges |-> <<RawEdgeWith(Absent, "A", "B", "x"),
               RawEdgeWith(Absent, "A", "B", "y")>>]

\* Three edges into one node, the first and the last on the same label.
RepeatedLabelInput ==
  [nodes |-> <<RawNode("A", OutputsArray(<<"y">>)),
               RawNode("B", OutputsArray(<<"x">>)), RawNode("C", NoOutputs)>>,
   edges |-> <<RawEdgeWith(Absent, "A", "C", "y"),
               RawEdgeWith(Absent, "B", "C", "x"),
               RawEdgeWith(Absent, "A", "C", "y")>>]

RenderScenarioInputs == {RepeatedEdgeIdInput, PortsInput, RepeatedLabelInput}

GenerateRender ==
  /\ pc = "idle"
  /\ \/ \E ns \in RenderRawNodeLists,
           es \in SeqsUpTo(RenderRawEdges, MaxRenderEdges) :
          ParseDocumentToGraph([nodes |-> ns, edges |-> es])
     \/ \E input \in RenderScenarioInputs : ParseDocumentToGraph(input)

\* d3's drag handler: the dragged node object gets event.x, event.y and
\* updatePositions redraws the links; edgeMeta is not rebuilt
Drag ==
  /\ pc = "rendered"
  /\ \E k \in DOMAIN positionedNodes, pt \in DragPoints :
       LET moved == [positionedNodes EXCEPT ![k].x = pt.x, ![k].y = pt.y]
       IN /\ positionedNodes' = moved
          /\ links' = updatePositions(links, moved, graphData)
  /\ pc' = "dragged"
  /\ UNCHANGED <<raw, normalized, graphData, topoResult, sortedNodeIds, layers,
                 nodesByLayer, optimizedLayers, error, checklist, viewport,
                 firstRun,
                 completedNodes, lastClick, api>>

\* the window is resized: nothing of GraphView runs
Resize ==
  /\ pc \in {"rendered", "dragged"}
  /\ \E v \in Viewports \ {viewport} : viewport' = v
  /\ UNCHANGED <<pc, raw, normalized, graphData, topoResult, sortedNodeIds,
                 layers, nodesByLayer, optimizedLayers, error, checklist,
                 positionedNodes, links, firstRun,
                 completedNodes, lastClick, api>>

\* the nodes of graphData that carry a y
PlacedInData == {k \in DOMAIN graphData.nodes : graphData.nodes[k].y # UndefinedY}

\* A click on the k-th drawn node makes it App's selectedNode, and a blur in
\* NodeDetailPanel hands it, unedited, to App.updateNode: every node of that
\* id in graphData becomes the drawn node, which carries its x and y (no code
\* reads a data node's x).  The memo is recomputed and the effects are due.
UpdateNode ==
  /\ pc \in {"rendered", "dragged"}
  /\ Cardinality(PlacedInData) < MaxUpdates
  /\ \E k \in DOMAIN positionedNodes :
       LET d == positionedNodes[k]
           updatedNode == [id |-> d.id, label |-> d.label, outputs |-> d.outputs,
                           moduleType |-> d.moduleType, y |-> d.y]
           data == [graphData EXCEPT
                      !.nodes = [i \in DOMAIN graphData.nodes |->
                                   IF graphData.nodes[i].id = updatedNode.id
                                   THEN updatedNode ELSE graphData.nodes[i]]]
           memo == sortedNodeIdsMemo(data, error)
       IN /\ graphData' = data
          /\ checklist' = memo.ids
          /\ error' = memo.error
  /\ pc' = "loaded"
  /\ UNCHANGED <<raw, normalized, topoResult, sortedNodeIds, layers,
                 nodesByLayer, optimizedLayers, viewport, positionedNodes, links,
                 firstRun,
                 completedNodes, lastClick, api>>

NextRender ==
  GenerateRender \/ LayoutEffect \/ RenderEffect \/ Drag \/ Resize \/ UpdateNode

SpecRender == Init /\ [][NextRender]_vars

(***************************************************************************)
(* The checklist (components/ChecklistView.tsx) with the nodes and edges   *)
(* App hands it, and App.handleDeleteNode.                                 *)
(***************************************************************************)
\* App's sortedNodes memo: sortedNodeIds.map(id => nodeMap.get(id)).filter(...)
sortedNodes(data, ids) ==
  [i \in DOMAIN Filter(ids, NodeIdSet(data)) |->
     LastNodeOf(data.nodes, Filter(ids, NodeIdSet(data))[i])]

\* the nodes and edges props of ChecklistView
ChecklistNodes == sortedNodes(graphData, checklist)
ChecklistEdges == graphData.edges

\* nodes.length > 0 && nodes.every(node => completedNodes.has(node.id))
allCompleted(nodes, completed) ==
  /\ Len(nodes) > 0
  /\ \A i \in DOMAIN nodes : nodes[i].id \in completed

\* deps: every node id with the sources of the edges into it, in edge order
dependencies(nodes, edges) ==
  [id \in Range(IdsOf(nodes)) |-> SourcesInto(edges, id, 1)]

\* Variant: a node is enabled whatever its dependencies.
isEnabledAlways(nodes, edges, completed, id) == TRUE

\* Variant: a node is enabled once one of its dependencies is completed.
isEnabledBySome(nodes, edges, completed, id) ==
  LET deps == dependencies(nodes, edges)
      nodeDeps == IF id \in DOMAIN deps THEN deps[id] ELSE <<>>
  IN nodeDeps = <<>> \/ \E i \in DOMAIN nodeDeps : nodeDeps[i] \in completed

\* (dependencies.get(node.id) || []).every(depId => completedNodes.has(depId))
isEnabled(nodes, edges, completed, id) ==
  LET deps == dependencies(nodes, edges)
      nodeDeps == IF id \in DOMAIN deps THEN deps[id] ELSE <<>>
  IN \A i \in DOMAIN nodeDeps : nodeDeps[i] \in completed

\* the owner of completedNodes on onToggleComplete(nodeId): the id is added,
\* or taken out when it is in the set
onToggleComplete(completed, nodeId) ==
  IF nodeId \in completed THEN completed \ {nodeId} ELSE completed \cup {nodeId}

\* a click on the checkbox of the k-th item: isEnabled && onToggleComplete(id)
ClickItem(k) ==
  LET node == ChecklistNodes[k]
      enabled == isEnabled(ChecklistNodes, ChecklistEdges, completedNodes, node.id)
  IN /\ completedNodes' = IF enabled
                          THEN onToggleComplete(completedNodes, node.id)
                          ELSE completedNodes
     /\ lastClick' = [node |-> node.id, invoked |-> enabled,
                      tick |-> 1 - lastClick.tick]
     /\ UNCHANGED <<pc, raw, normalized, graphData, topoResult, sortedNodeIds,
                    layers, nodesByLayer, optimizedLayers, error, checklist,
                    viewport, positionedNodes, links, firstRun, api>>

ClickCheckbox ==
  /\ pc = "loaded"
  /\ \E k \in DOMAIN ChecklistNodes : ClickItem(k)

\* Variant: only the edges that leave the node go with it.
handleDeleteNodeKeepsIncoming(data, nodeId) ==
  [nodes |-> SelectSeq(data.nodes, LAMBDA n : n.id # nodeId),
   edges |-> SelectSeq(data.edges, LAMBDA e : e.source # nodeId)]

\* App.handleDeleteNode(nodeId) from the delete button of a node, and the
\* memo of the render that follows
handleDeleteNode(data, nodeId) ==
  [nodes |-> SelectSeq(data.nodes, LAMBDA n : n.id # nodeId),
   edges |-> SelectSeq(data.edges,
                       LAMBDA e : e.source # nodeId /\ e.target # nodeId)]

HandleDeleteNode ==
  /\ pc = "loaded"
  /\ \E k \in DOMAIN graphData.nodes :
       LET data == handleDeleteNode(graphData, graphData.nodes[k].id)
           memo == sortedNodeIdsMemo(data, error)
       IN /\ graphData' = data
          /\ checklist' = memo.ids
          /\ error' = memo.error
  /\ UNCHANGED <<pc, raw, normalized, topoResult, sortedNodeIds, layers,
                 nodesByLayer, optimizedLayers, viewport, positionedNodes, links,
                 firstRun, completedNodes, lastClick, api>>

NextChecklist ==
  GenerateGraph \/ GenerateScenario \/ ClickCheckbox \/ HandleDeleteNode

SpecChecklist == Init /\ [][NextChecklist]_vars

\* The user completes enabled items one at a time and does nothing else.
CompleteEnabled ==
  /\ pc = "loaded"
  /\ \E k \in DOMAIN ChecklistNodes :
       /\ ChecklistNodes[k].id \notin completedNodes
       /\ isEnabled(ChecklistNodes, ChecklistEdges, completedNodes,
                    ChecklistNodes[k].id)
       /\ ClickItem(k)

NextCompleting == GenerateGraph \/ GenerateScenario \/ CompleteEnabled

SpecCompleting ==
  Init /\ [][NextCompleting]_vars /\ WF_vars(CompleteEnabled)

(***************************************************************************)
(* The /api/gemini handler (api/gemini.ts) serving one request.  api.calls *)
(* lists what each fetch did, api.responses the statuses sent.             *)
(***************************************************************************)
\* [process.env.GEMINI_MODEL, ...].filter(Boolean); "" for an unset variable
MODEL_CANDIDATES(envModel) ==
  SelectSeq(<<envModel, "gemini-2.0-flash", "gemini-2.0-flash-lite",
              "gemini-1.5-flash-latest", "gemini-1.5-flash">>,
            LAMBDA model : model # "")

\* the statuses the Gemini API answers with, and Response.ok
Statuses == {200, 401, 403, 404, 500}
ResponseOk(status) == status \in 200..299

\* return res.status(status).json(...)
Respond(a, status) ==
  [a EXCEPT !.pc = "done", !.responses = Append(@, status)]

\* `continue` with lastError set: the next candidate's fetch, or after the
\* last candidate 404 when lastError?.status === 404 and 500 otherwise
Continue(a, lastError) ==
  IF a.index < Len(a.candidates)
  THEN [a EXCEPT !.pc = "fetching", !.index = @ + 1, !.status = 0,
                 !.lastError = lastError]
  ELSE Respond([a EXCEPT !.status = 0, !.lastError = lastError],
               IF lastError = "404" THEN 404 ELSE 500)

\* the handler after response.text() or response.json() gave the body
OnBodyRead(a) ==
  IF ResponseOk(a.status) THEN Respond(a, 200)
  ELSE IF a.status = 404 THEN Continue(a, "404")
  ELSE Respond(a, a.status)

\* the handler up to its first await: the three checks, then the first fetch
HandlerStart ==
  /\ api.pc = "idle"
  /\ \E method \in {"POST", "GET"}, apiKey \in {"", "key"},
        prompt \in {"<undefined>", " ", "text"},
        envModel \in {"", "gemini-custom"} :
       api' = IF method # "POST" THEN Respond(api, 405)
              ELSE IF apiKey = "" THEN Respond(api, 500)
              ELSE IF prompt \in {"<undefined>", " "} THEN Respond(api, 400)
              ELSE [api EXCEPT !.pc = "fetching",
                               !.candidates = MODEL_CANDIDATES(envModel),
                               !.index = 1]
  /\ UNCHANGED <<pc, raw, normalized, graphData, topoResult, sortedNodeIds,
                 layers, nodesByLayer, optimizedLayers, error, checklist,
                 viewport, positionedNodes, links, firstRun, completedNodes,
                 lastClick>>

\* await fetch(url, ...) settles: it throws, or answers with a status
FetchSettles ==
  /\ api.pc = "fetching"
  /\ LET model == api.candidates[api.index]
     IN \/ api' = Continue([api EXCEPT !.calls =
                              Append(@, [model |-> model, fetch |-> "thrown",
                                         status |-> 0, body |-> "none"])],
                           "thrown")
        \/ \E status \in Statuses :
             api' = [api EXCEPT !.pc = "reading", !.status = status]
  /\ UNCHANGED <<pc, raw, normalized, graphData, topoResult, sortedNodeIds,
                 layers, nodesByLayer, optimizedLayers, error, checklist,
                 viewport, positionedNodes, links, firstRun, completedNodes,
                 lastClick>>

\* await response.text() / response.json() settles: the body is read, or the
\* read throws into the catch of the loop
BodySettles ==
  /\ api.pc = "reading"
  /\ LET call(body) == [model |-> api.candidates[api.index],
                        fetch |-> "answered", status |-> api.status,
                        body |-> body]
     IN \/ api' = OnBodyRead([api EXCEPT !.calls = Append(@, call("read"))])
        \/ api' = Continue([api EXCEPT !.calls = Append(@, call("failed"))],
                           "thrown")
  /\ UNCHANGED <<pc, raw, normalized, graphData, topoResult, sortedNodeIds,
                 layers, nodesByLayer, optimizedLayers, error, checklist,
                 viewport, positionedNodes, links, firstRun, completedNodes,
                 lastClick>>

NextApi == HandlerStart \/ FetchSettles \/ BodySettles

SpecApi == Init /\ [][NextApi]_vars

(***************************************************************************)
(* optimizeLayerOrdering on its own: layers and edges drawn from bounded   *)
(* sets, with nodes that carry a y.                                        *)
(***************************************************************************)
\* the values Node.y is drawn from
YValues == {UndefinedY, 1}

LayerIdLists ==
  {l \in SeqsUpTo(NodeIds, MaxLayerNodes) :
     \A i \in DOMAIN l, j \in DOMAIN l : i # j => l[i] # l[j]}

NodesWithY(l, ys) ==
  [i \in DOMAIN l |->
     [id |-> l[i], label |-> l[i], outputs |-> <<>>, y |-> ys[l[i]],
      moduleType |-> NoModuleType]]

Disjoint(a, b) == Range(a) \cap Range(b) = {}

\* one, two or three layers over distinct node ids
LayerIdInputs ==
  {<<a>> : a \in LayerIdLists}
  \cup {p \in {<<a, b>> : a \in LayerIdLists, b \in LayerIdLists} :
          Disjoint(p[1], p[2])}
  \cup {p \in {<<a, b, c>> : a \in LayerIdLists \ {<<>>},
                             b \in LayerIdLists \ {<<>>},
                             c \in LayerIdLists \ {<<>>}} :
          Disjoint(p[1], p[2]) /\ Disjoint(p[1], p[3]) /\ Disjoint(p[2], p[3])}

\* an empty id list stands for an empty slot of the sparse array
SlotsOf(lists, ys) ==
  [j \in DOMAIN lists |->
     IF lists[j] = <<>> /\ j < Len(lists) THEN HoleSlot
     ELSE Slot(NodesWithY(lists[j], ys))]

InitOrdering ==
  /\ pc = "grouped"
  /\ raw = EmptyGraph
  /\ normalized = EmptyGraph
  /\ \E es \in RawEdgeLists :
       graphData = [nodes |-> <<>>, edges |-> normalizeEdges(es)]
  /\ topoResult = NoTopoResult
  /\ sortedNodeIds = <<>>
  /\ layers = EmptyMap
  /\ \E lists \in LayerIdInputs, ys \in [NodeIds -> YValues] :
       nodesByLayer = SlotsOf(lists, ys)
  /\ optimizedLayers = NoOptimized
  /\ error = ""
  /\ checklist = <<>>
  /\ viewport = DefaultViewport
  /\ positionedNodes = <<>>
  /\ links = <<>>
  /\ firstRun = NoRun
  /\ completedNodes = {}
  /\ lastClick = NoClick
  /\ api = NoRequest

OptimizeLayers ==
  /\ pc = "grouped"
  /\ optimizedLayers' = optimizeLayerOrdering(nodesByLayer, graphData.edges)
  /\ pc' = "optimized"
  /\ UNCHANGED <<raw, normalized, graphData, topoResult, sortedNodeIds, layers,
                 nodesByLayer, error, checklist, viewport, positionedNodes, links,
                 firstRun,
                 completedNodes, lastClick, api>>

NextOrdering == OptimizeLayers

SpecOrdering == InitOrdering /\ [][NextOrdering]_vars

(***************************************************************************)
(* Properties.                                                             *)
(***************************************************************************)
UniqueNodeIds(graph) ==
  \A i \in DOMAIN graph.nodes, j \in DOMAIN graph.nodes :
    i # j => graph.nodes[i].id # graph.nodes[j].id

UniqueEdgeIds(graph) ==
  \A i \in DOMAIN graph.edges, j \in DOMAIN graph.edges :
    i # j => graph.edges[i].id # graph.edges[j].id

\* the edges, as pairs, whose two endpoints are nodes of the graph
KnownEdgePairs(graph) ==
  {<<graph.edges[i].source, graph.edges[i].target>> :
     i \in {k \in DOMAIN graph.edges :
              /\ graph.edges[k].source \in NodeIdSet(graph)
              /\ graph.edges[k].target \in NodeIdSet(graph)}}

\* A directed cycle among the nodes: a non-empty set of nodes in which every
\* node has a successor.
HasDirectedCycle(graph) ==
  \E S \in SUBSET NodeIdSet(graph) :
    /\ S # {}
    /\ \A u \in S : \E v \in S : <<u, v>> \in KnownEdgePairs(graph)

RECURSIVE IsSubsequence(_, _)
\* a is b with some elements left out
IsSubsequence(a, b) ==
  IF a = <<>> THEN TRUE
  ELSE IF b = <<>> THEN FALSE
  ELSE IF Head(a) = Head(b) THEN IsSubsequence(Tail(a), Tail(b))
  ELSE IsSubsequence(a, Tail(b))

Loaded == pc \in {"loaded", "laidOut"}

\* what ensureAcyclicGraph makes of the normalized graph
Resolved == ensureAcyclicGraph(normalized)

RemovedEdgeIds == {e.id : e \in Range(normalized.edges)} \
                  {e.id : e \in Range(Resolved.edges)}

\* C1: for every input graph, hasCycle(ensureAcyclicGraph(G)) is false.
C1_ResolvedHasNoCycle == Loaded => ~hasCycle(Resolved)

\* C2: after normalization every edge's source and target are ids of
\* normalized nodes; an edge naming an unknown id never reaches
\* ensureAcyclicGraph.
C2_EdgesNameNormalizedNodes ==
  Loaded =>
    \A i \in DOMAIN normalized.edges :
      /\ normalized.edges[i].source \in NodeIdSet(normalized)
      /\ normalized.edges[i].target \in NodeIdSet(normalized)

PositionIn(ids, id) == CHOOSE k \in DOMAIN ids : ids[k] = id

\* `ids` holds every node id once, and every edge between nodes goes forward
IsTopologicalOrder(ids, graph) ==
  /\ Len(ids) = Len(graph.nodes)
  /\ \A id \in NodeIdSet(graph) : Cardinality({k \in DOMAIN ids : ids[k] = id}) = 1
  /\ \A p \in KnownEdgePairs(graph) : PositionIn(ids, p[1]) < PositionIn(ids, p[2])

\* C3: for an acyclic graph with unique node ids topoSort returns every node id
\* exactly once, with u before v for every edge u -> v between known nodes.
C3_TopoSortOrdersDag ==
  (pc = "laidOut" /\ UniqueNodeIds(graphData) /\ ~HasDirectedCycle(graphData))
    => (~topoResult.threw /\ IsTopologicalOrder(topoResult.ids, graphData))

C3_Witness ==
  /\ pc = "laidOut"
  /\ UniqueNodeIds(graphData)
  /\ ~HasDirectedCycle(graphData)
  /\ Len(graphData.nodes) = 3
  /\ Cardinality(KnownEdgePairs(graphData)) = 2
  /\ topoResult.ids # IdsOf(graphData.nodes)

\* C4: topoSort raises exactly when the graph has a directed cycle among its
\* known nodes.
C4_TopoSortThrowsIffCycle ==
  pc = "laidOut" => (topoResult.threw <=> HasDirectedCycle(graphData))

\* C4 on graphs whose node ids are unique.
C4_UniqueIdsThrowsIffCycle ==
  (pc = "laidOut" /\ UniqueNodeIds(graphData))
    => (topoResult.threw <=> HasDirectedCycle(graphData))

Predecessors(graph, id) == {p[1] : p \in {q \in KnownEdgePairs(graph) : q[2] = id}}

MaxOf(S) == CHOOSE x \in S : \A y \in S : y <= x

\* layer = 0 without predecessor, else 1 + the largest layer of a predecessor
LayersAreLongestPaths(m, graph) ==
  /\ \A id \in NodeIdSet(graph) :
       /\ MapHas(m, id)
       /\ m.at[id] = IF Predecessors(graph, id) = {} THEN 0
                     ELSE 1 + MaxOf({m.at[p] : p \in Predecessors(graph, id)})
  /\ \A p \in KnownEdgePairs(graph) : m.at[p[2]] > m.at[p[1]]

\* C5: for an acyclic graph laid out in the order topoSort returned, each node's
\* layer is 0 without incoming edge, else 1 + the maximum layer of its
\* predecessors, so layer(v) > layer(u) for every edge u -> v.
C5_LayersAreLongestPaths ==
  (pc = "laidOut" /\ ~HasDirectedCycle(graphData) /\ ~topoResult.threw)
    => LayersAreLongestPaths(layers, graphData)

\* C5 on graphs whose node ids are unique.
C5_UniqueIdsLayersAreLongestPaths ==
  (pc = "laidOut" /\ UniqueNodeIds(graphData) /\ ~HasDirectedCycle(graphData))
    => LayersAreLongestPaths(layers, graphData)

SlotIds(slot) == {slot.nodes[i].id : i \in DOMAIN slot.nodes}

\* C6: optimizeLayerOrdering returns as many layers as it was given, and every
\* output layer holds the node ids of the input layer of the same index.
C6_LayersKeepTheirNodes ==
  (pc \in {"optimized", "laidOut"} /\ ~optimizedLayers.threw)
    => /\ Len(optimizedLayers.layers) = Len(nodesByLayer)
       /\ \A j \in DOMAIN nodesByLayer :
            /\ optimizedLayers.layers[j].hole = nodesByLayer[j].hole
            /\ SlotIds(optimizedLayers.layers[j]) = SlotIds(nodesByLayer[j])
            /\ Len(optimizedLayers.layers[j].nodes) = Len(nodesByLayer[j].nodes)

C6_Witness ==
  /\ pc = "optimized"
  /\ ~optimizedLayers.threw
  /\ Len(nodesByLayer) = 2
  /\ \E j \in DOMAIN nodesByLayer :
       optimizedLayers.layers[j].nodes # nodesByLayer[j].nodes

\* C7: ensureAcyclicGraph returns the input node list unchanged and an edge
\* list that is a sub-sequence of the input edge list.
C7_NodesKeptEdgesSubsequence ==
  Loaded => /\ Resolved.nodes = normalized.nodes
            /\ IsSubsequence(Resolved.edges, normalized.edges)

C7_Witness ==
  /\ Loaded
  /\ Len(Resolved.edges) = 1
  /\ Len(normalized.edges) = 2
  /\ Resolved.edges[1] = normalized.edges[2]

\* the resolved graph with the i-th input edge put back at its place
WithEdgeBack(i) ==
  [nodes |-> Resolved.nodes,
   edges |-> Filter(normalized.edges,
                    {e \in Range(normalized.edges) :
                       e.id \notin RemovedEdgeIds \/ e.id = normalized.edges[i].id})]

\* C8: with unique edge ids, putting any single removed edge back into the
\* output creates a directed cycle; an acyclic input loses no edge.
C8_RemovedEdgesAreNeeded ==
  (Loaded /\ UniqueEdgeIds(normalized))
    => /\ \A i \in DOMAIN normalized.edges :
            normalized.edges[i].id \in RemovedEdgeIds
              => HasDirectedCycle(WithEdgeBack(i))
       /\ ~HasDirectedCycle(normalized) => Resolved.edges = normalized.edges

C8_Witness ==
  /\ Loaded
  /\ UniqueEdgeIds(normalized)
  /\ Cardinality(RemovedEdgeIds) = 2
  /\ ~HasDirectedCycle(Resolved)

\* C9: the output of ensureAcyclicGraph has no edge from a node to itself,
\* however many self-loops the node had, and that node is still present.
C9_NoSelfLoopLeft ==
  Loaded => /\ \A i \in DOMAIN Resolved.edges :
                 Resolved.edges[i].source \in NodeIdSet(normalized)
                   => Resolved.edges[i].source # Resolved.edges[i].target
            /\ IdsOf(Resolved.nodes) = IdsOf(normalized.nodes)

Edge(id, s, t) == [id |-> id, source |-> s, target |-> t, label |-> ""]

\* C10: for nodes [A,B,C] and edges [A->B, B->C, C->A], ensureAcyclicGraph
\* returns exactly A->B and B->C, topoSort returns [A,B,C], and the layers are
\* A:0, B:1, C:2.
C10_ThreeCycleScenario ==
  (raw = ThreeCycleInput /\ pc = "laidOut")
    => /\ graphData.edges = <<Edge("edge-1", "A", "B"), Edge("edge-2", "B", "C")>>
       /\ IdsOf(graphData.nodes) = <<"A", "B", "C">>
       /\ topoResult = [threw |-> FALSE, ids |-> <<"A", "B", "C">>]
       /\ layers.keys = <<"A", "B", "C">>
       /\ layers.at["A"] = 0 /\ layers.at["B"] = 1 /\ layers.at["C"] = 2

C10_Witness == raw = ThreeCycleInput /\ pc = "laidOut"

\* C11: in the graph normalize produces, node ids are pairwise distinct and
\* edge ids are pairwise distinct, whatever mix of explicit and synthetic ids
\* the raw records carry.
C11_NormalizedIdsDistinct ==
  Loaded => (UniqueNodeIds(normalized) /\ UniqueEdgeIds(normalized))

\* every node of the graph has a layer and a positioned copy
EveryNodePlaced ==
  /\ \A id \in NodeIdSet(graphData) : MapHas(layers, id)
  /\ ~optimizedLayers.threw
  /\ IdsOf(positionedNodes) = IdsOf(graphData.nodes)

\* C14: when topoSort raises, GraphView falls back to node-definition order and
\* still gives every node a layer and a position, and App's checklist order is
\* empty with an error message recorded.
C14_CycleErrorIsHandled ==
  (pc \in {"laidOut", "rendered"} /\ topoResult.threw)
    => /\ sortedNodeIds = IdsOf(graphData.nodes)
       /\ EveryNodePlaced
       /\ checklist = <<>>
       /\ error = CycleMessage

\* C14 on graphs whose node ids are unique.
C14_UniqueIdsCycleErrorIsHandled ==
  (pc \in {"laidOut", "rendered"} /\ topoResult.threw /\ UniqueNodeIds(graphData))
    => /\ sortedNodeIds = IdsOf(graphData.nodes)
       /\ EveryNodePlaced
       /\ checklist = <<>>
       /\ error = CycleMessage

Reverse(seq) == [i \in DOMAIN seq |-> seq[Len(seq) + 1 - i]]

\* C15: hasCycle(G) is true exactly when some node reaches itself along one or
\* more edges between nodes, and the answer is the same for the node and edge
\* lists in another order.
C15_HasCycleIffDirectedCycle ==
  Loaded =>
    /\ hasCycle(normalized) <=> HasDirectedCycle(normalized)
    /\ hasCycle(graphData) <=> HasDirectedCycle(graphData)
    /\ hasCycle([nodes |-> Reverse(normalized.nodes),
                 edges |-> Reverse(normalized.edges)]) <=> hasCycle(normalized)

C15_Witness ==
  /\ Loaded
  /\ hasCycle(normalized)
  /\ Len(normalized.nodes) = 3
  /\ \A i \in DOMAIN normalized.edges :
       normalized.edges[i].source # normalized.edges[i].target

\* C16: normalize throws for no raw input whose nodes and edges are arrays,
\* whatever their elements are.
C16_NormalizeNeverThrows == pc # "idle" => ~normalizeThrows(raw)

\* twice the sum of the 0-based places, in `other`, of the neighbours that are
\* in `other`, and their number
PlaceSum(other, ids) ==
  LET found == FoundIn(other, ids, 1)
      RECURSIVE sum(_)
      sum(i) == IF i > Len(found) THEN 0
                ELSE (FindNodeIndex(other, found[i].id) - 1) + sum(i + 1)
  IN [num |-> sum(1), den |-> IF Len(found) = 0 THEN 1 ELSE Len(found)]

\* the mean place of a's neighbours is at most that of b's
PlaceMeanAtMost(a, b, other, edges, forward) ==
  LET pa == PlaceSum(other, NeighborIds(edges, a.id, forward))
      pb == PlaceSum(other, NeighborIds(edges, b.id, forward))
  IN pa.num * pb.den <= pb.num * pa.den

\* C17: the sweeps sort by the mean index position of the neighbours in the
\* adjacent layer; the last backward sweep then leaves every layer but the last
\* in ascending order of the mean place of its nodes' successors in the next.
C17_SortedByNeighbourPlaces ==
  (pc \in {"laidOut", "rendered"} /\ ~optimizedLayers.threw)
    => \A j \in DOMAIN optimizedLayers.layers :
         j < Len(optimizedLayers.layers) =>
           LET layer == optimizedLayers.layers[j].nodes
               next == optimizedLayers.layers[j + 1].nodes
           IN \A k \in DOMAIN layer :
                k < Len(layer) =>
                  PlaceMeanAtMost(layer[k], layer[k + 1], next,
                                  graphData.edges, FALSE)

\* node ids in ascending order
NodeIdBefore(a, b) ==
  LET order == <<"A", "B", "C", "D", "node-1", "node-2", "node-3", "node-4",
                 "node-5", "node-6">>
      rank(id) == CHOOSE k \in DOMAIN order : order[k] = id
  IN rank(a) < rank(b)

\* C18: each seeded layer is in ascending order of facet priority, then of
\* descending edge degree, then of node id.
C18_SeedOrderEndsWithId ==
  pc \in {"laidOut", "rendered"}
    => \A j \in DOMAIN nodesByLayer :
         LET layer == nodesByLayer[j].nodes
         IN \A k \in DOMAIN layer :
              k < Len(layer) =>
                LET a == layer[k]
                    b == layer[k + 1]
                    pa == moduleTypePriority(a.moduleType)
                    pb == moduleTypePriority(b.moduleType)
                    da == connections(graphData.edges, a.id)
                    db == connections(graphData.edges, b.id)
                IN \/ pa < pb
                   \/ pa = pb /\ da > db
                   \/ pa = pb /\ da = db /\ NodeIdBefore(a.id, b.id)

Rendered == pc \in {"rendered", "dragged"}

\* the node is an end of some edge
HasIncidentEdge(id) ==
  \E i \in DOMAIN graphData.edges :
    graphData.edges[i].source = id \/ graphData.edges[i].target = id

\* C12: every rendered node that is an end of an edge shows at least one port,
\* input or output.
C12_LinkedNodesHavePorts ==
  Rendered =>
    \A k \in DOMAIN positionedNodes :
      HasIncidentEdge(positionedNodes[k].id)
        => \/ nodePorts(positionedNodes[k], graphData).inputs # <<>>
           \/ nodePorts(positionedNodes[k], graphData).outputs # <<>>

\* the node ids of every layer, in their order
OrderOf(optimized) ==
  [j \in DOMAIN optimized.layers |-> IdsOf(optimized.layers[j].nodes)]

\* nodes and edges as the input contract has them: without a y
InputGraphOf(data) ==
  [nodes |-> [i \in DOMAIN data.nodes |-> [data.nodes[i] EXCEPT !.y = UndefinedY]],
   edges |-> data.edges]

\* C13: a later run of the pipeline on the same input graph, in a viewport of
\* the same size, yields the layers, orders within layers, widths, heights,
\* positions and control points of the first run.
C13_SameGraphSameLayout ==
  [][(/\ firstRun.done
      /\ firstRun.viewport = viewport
      /\ InputGraphOf(graphData) = InputGraphOf(firstRun.graph))
       => /\ (pc = "loaded" /\ pc' = "laidOut")
               => /\ layers' = firstRun.layers
                  /\ OrderOf(optimizedLayers') = OrderOf(firstRun.optimizedLayers)
                  /\ positionedNodes' = firstRun.positionedNodes
          /\ (pc = "laidOut" /\ pc' = "rendered")
               => /\ nodeWidths(graphData') = firstRun.widths
                  /\ nodeHeights(graphData') = firstRun.heights
                  /\ links' = firstRun.links]_vars

\* C19: two links with the same source and label start at the same point, two
\* with the same target and label end at the same point, and every link starts
\* and ends where a lone link of its source, target and label would.
C19_EndsDependOnPortOnly ==
  Rendered =>
    /\ \A i \in DOMAIN links, j \in DOMAIN links :
         /\ (links[i].edge.source = links[j].edge.source
               /\ links[i].edge.label = links[j].edge.label)
              => links[i].path.start = links[j].path.start
         /\ (links[i].edge.target = links[j].edge.target
               /\ links[i].edge.label = links[j].edge.label)
              => links[i].path.end = links[j].path.end
    /\ \A i \in DOMAIN links :
         LET alone == linkPath(links[i].edge,
                               [sIndex |-> 0, sCount |-> 1, tIndex |-> 0, tCount |-> 1],
                               nodeMap(positionedNodes), graphData)
         IN /\ links[i].path.start = alone.start
            /\ links[i].path.end = alone.end

\* after a drag: two siblings of one output port with distinct first control
\* points
C19_Witness ==
  /\ pc = "dragged"
  /\ \E i \in DOMAIN links, j \in DOMAIN links :
       /\ links[i].edge.source = links[j].edge.source
       /\ links[i].edge.label = links[j].edge.label
       /\ links[i].edge.target # links[j].edge.target
       /\ links[i].path.c1 # links[j].path.c1
       /\ links[i].path.start # nodeMap(positionedNodes)[links[i].edge.source]

\* the links of the group of link k: same node at `end`, same label
GroupOfLink(k, end) ==
  {j \in DOMAIN links :
     /\ links[j].edge[end] = links[k].edge[end]
     /\ links[j].edge.label = links[k].edge.label}

\* the node at the other end of link i is not after that of link j in
\* (y, x, edge id) order
OtherEndAtMost(i, j, other) ==
  LET ni == nodeMap(positionedNodes)[links[i].edge[other]]
      nj == nodeMap(positionedNodes)[links[j].edge[other]]
  IN \/ ni.y < nj.y
     \/ ni.y = nj.y /\ ni.x < nj.x
     \/ ni.y = nj.y /\ ni.x = nj.x
        /\ ~localeCompareBefore(links[j].edge.id, links[i].edge.id)

RECURSIVE SumOver(_, _)
SumOver(S, f) ==
  IF S = {} THEN 0
  ELSE LET x == CHOOSE y \in S : TRUE IN f[x] + SumOver(S \ {x}, f)

\* the indices of one kind of group: idx and cnt are the meta fields, point
\* the control point and port the path end the group shares
SiblingsSpread(end, other, idx, cnt, point, port) ==
  \A k \in DOMAIN links :
    LET group == GroupOfLink(k, end)
        n == Cardinality(group)
    IN /\ links[k].meta[cnt] = n
       /\ {links[j].meta[idx] : j \in group} = 0..(n - 1)
       /\ \A i \in group, j \in group :
            links[i].meta[idx] < links[j].meta[idx] => OtherEndAtMost(i, j, other)
       /\ SumOver(group, [j \in group |-> 2 * links[j].meta[idx] - (n - 1)]) = 0
       /\ n = 2 =>
            \A i \in group, j \in group :
              i # j =>
                /\ links[i].path[point] # links[j].path[point]
                /\ (links[i].path[point].y - 30 * links[i].path[port].y)
                     * (links[j].path[point].y - 30 * links[j].path[port].y) < 0

\* C20: in every source group and every target group of size n the links have
\* the indices 0..n-1 in the order of the other end's y, x and edge id, the
\* centred offsets sum to zero, and the two control points of a group of two
\* lie on opposite sides of the shared port and differ.
C20_SiblingsSpread ==
  pc = "rendered"
    => /\ SiblingsSpread("source", "target", "sIndex", "sCount", "c1", "start")
       /\ SiblingsSpread("target", "source", "tIndex", "tCount", "c2", "end")

\* C20 on graphs whose edge ids are unique.
C20_UniqueEdgeIdsSiblingsSpread ==
  (pc = "rendered" /\ UniqueEdgeIds(graphData))
    => /\ SiblingsSpread("source", "target", "sIndex", "sCount", "c1", "start")
       /\ SiblingsSpread("target", "source", "tIndex", "tCount", "c2", "end")

\* the labels of the edges into the node
LabelsOfEdgesInto(id) ==
  {graphData.edges[i].label :
     i \in {j \in DOMAIN graphData.edges : graphData.edges[j].target = id}}

\* the greatest of a non-empty set of numbers
Greatest(values) == CHOOSE x \in values : \A y \in values : y <= x

\* the width of the widest of the port labels, 0 when there is none
LongestPortWidth(labels) ==
  IF labels = {} THEN 0 ELSE Greatest({7 * StrLen(l) + 30 : l \in labels})

PortsOf(d, isOutput) ==
  IF isOutput THEN nodePorts(d, graphData).outputs
  ELSE nodePorts(d, graphData).inputs

\* GraphView: the ports of one direction of the drawn node d lie below the
\* header and above the bottom edge, at equal steps, each label at its own
\* height
PortsWithinBody(d, isOutput) ==
  LET ports == PortsOf(d, isOutput)
      height == nodeHeights(graphData)[d.id]
      top == d.y - (height \div 2)
      at == [i \in DOMAIN ports |->
               getPortPosition(nodeMap(positionedNodes), graphData, d.id,
                               ports[i], isOutput).y]
  IN /\ \A i \in DOMAIN ports : top + 28 < at[i] /\ at[i] < top + height
     /\ \A i, j \in DOMAIN ports :
          /\ ports[i] # ports[j] => at[i] # at[j]
          /\ (i + 1 \in DOMAIN ports /\ j + 1 \in DOMAIN ports)
               => /\ at[i + 1] - at[i] = at[j + 1] - at[j]
                  /\ at[i + 1] > at[i]

\* NodeEditor: the same for an editor node at d's place with as many inputs
\* and outputs as d has
EditorPortsWithinBody(d, isOutput) ==
  LET inputCount == Len(PortsOf(d, FALSE))
      outputCount == Len(PortsOf(d, TRUE))
      count == IF isOutput THEN outputCount ELSE inputCount
      at == [i \in 0..(count - 1) |->
               NodeEditor_getPortPosition([x |-> d.x, y |-> d.y], inputCount,
                                          outputCount, i, isOutput)]
  IN /\ \A i \in DOMAIN at :
          /\ (d.y + 28) * at[i].per < at[i].yTimes
          /\ at[i].yTimes < (d.y + 28 + at[i].bodyHeight) * at[i].per
     /\ \A i, j \in DOMAIN at :
          /\ i # j => at[i].yTimes # at[j].yTimes
          /\ (i + 1 \in DOMAIN at /\ j + 1 \in DOMAIN at)
               => /\ at[i + 1].yTimes - at[i].yTimes
                       = at[j + 1].yTimes - at[j].yTimes
                  /\ at[i + 1].yTimes > at[i].yTimes

\* C22: every port found on a node has its vertical centre below the 28px
\* header and above the node's bottom edge, the ports of one direction are
\* evenly spaced, and two different ports of one direction on one node have
\* different centres; in GraphView and in NodeEditor.
C22_PortsWithinBody ==
  Rendered
    => \A k \in DOMAIN positionedNodes : \A isOutput \in BOOLEAN :
         /\ PortsWithinBody(positionedNodes[k], isOutput)
         /\ EditorPortsWithinBody(positionedNodes[k], isOutput)

\* two links between the same two nodes on different labels that leave and
\* arrive at different heights, from a node with three output ports
C22_Witness ==
  /\ Rendered
  /\ \E i, j \in DOMAIN links :
       /\ links[i].edge.source = links[j].edge.source
       /\ links[i].edge.target = links[j].edge.target
       /\ links[i].edge.label # links[j].edge.label
       /\ links[i].path.start.y # links[j].path.start.y
       /\ links[i].path.end.y # links[j].path.end.y
       /\ \E k \in DOMAIN positionedNodes :
            /\ positionedNodes[k].id = links[i].edge.source
            /\ Len(positionedNodes[k].outputs) >= 3
\* the drawn nodes a and b: apart by a layer step in x when in different
\* layers, 80 apart bottom to top when one follows the other in a layer, and
\* with disjoint boxes
BoxesApart(a, b) ==
  LET widths == nodeWidths(graphData)
      heights == nodeHeights(graphData)
      la == layers.at[a.id]
      lb == layers.at[b.id]
      layer == optimizedLayers.layers[la + 1].nodes
      widest == Greatest(Range(widths))
  IN /\ la # lb => Abs(a.x - b.x) >= widest + 120
     /\ (la = lb /\ FindNodeIndex(layer, b.id) = FindNodeIndex(layer, a.id) + 1)
          => 2 * (b.y - a.y) - heights[a.id] - heights[b.id] = 2 * 80
     /\ \/ 2 * Abs(a.x - b.x) >= widths[a.id] + widths[b.id]
        \/ 2 * Abs(a.y - b.y) >= heights[a.id] + heights[b.id]

\* C23: in the computed layout no two node boxes overlap: nodes of different
\* layers are at least the widest node's width plus 120 apart in x, and
\* consecutive nodes of a layer are 80 apart from bottom to top.
C23_NoOverlap ==
  (pc \in {"laidOut", "rendered"} /\ ~optimizedLayers.threw)
    => \A k, l \in DOMAIN positionedNodes :
         k # l => BoxesApart(positionedNodes[k], positionedNodes[l])

\* C23 on graphs whose node ids are unique.
C23_UniqueIdsNoOverlap ==
  (pc \in {"laidOut", "rendered"} /\ ~optimizedLayers.threw
     /\ UniqueNodeIds(graphData))
    => \A k, l \in DOMAIN positionedNodes :
         k # l => BoxesApart(positionedNodes[k], positionedNodes[l])
\* the place in the edge list of the first edge into the node on the label
FirstEdgeInto(id, label) ==
  LET hits == {i \in DOMAIN graphData.edges :
                 /\ graphData.edges[i].target = id
                 /\ graphData.edges[i].label = label}
  IN CHOOSE i \in hits : \A j \in hits : i <= j

\* the graph with nothing but the ids of its nodes
IdsAndEdges(data) ==
  [nodes |-> [i \in DOMAIN data.nodes |-> [id |-> data.nodes[i].id]],
   edges |-> data.edges]

\* C24: the derived input list of a node holds exactly the labels of the edges
\* into it, each once, in the order of their first occurrence in the edge
\* list, and is the same for any nodes with these ids.
C24_InputsFromEdges ==
  Loaded
    => /\ \A id \in NodeIdSet(graphData) :
            LET inputs == inputsByNode(graphData)[id]
            IN /\ Range(inputs) = LabelsOfEdgesInto(id)
               /\ \A i, j \in DOMAIN inputs :
                    i < j => /\ inputs[i] # inputs[j]
                             /\ FirstEdgeInto(id, inputs[i])
                                  < FirstEdgeInto(id, inputs[j])
       /\ inputsByNode(IdsAndEdges(graphData)) = inputsByNode(graphData)

\* a node with three incoming edges on two labels
C24_Witness ==
  /\ Loaded
  /\ \E id \in NodeIdSet(graphData) :
       /\ Len(LabelsInto(graphData.edges, id, 1)) = 3
       /\ inputsByNode(graphData)[id] = <<"y", "x">>
\* no two edges of the graph have the same source and the same target
NoParallelEdges(graph) ==
  \A i, j \in DOMAIN graph.edges :
    (/\ graph.edges[i].source = graph.edges[j].source
     /\ graph.edges[i].target = graph.edges[j].target) => i = j

\* C25: ensureAcyclicGraph applied to its own output gives the same node and
\* edge lists.
C25_EnsureAcyclicIdempotent ==
  Loaded => /\ ensureAcyclicGraph(Resolved).nodes = Resolved.nodes
            /\ ensureAcyclicGraph(Resolved).edges = Resolved.edges

\* C25 on graphs with at most one edge per ordered pair of nodes.
C25_NoParallelEdgesIdempotent ==
  (Loaded /\ NoParallelEdges(normalized))
    => /\ ensureAcyclicGraph(Resolved).nodes = Resolved.nodes
       /\ ensureAcyclicGraph(Resolved).edges = Resolved.edges
\* the layers in use are 0..max, every node above layer 0 has a predecessor
\* one layer below, and the array of layers has no empty slot
LayersAreContiguous ==
  LET used == {layers.at[id] : id \in Range(layers.keys)}
  IN /\ \A k \in used : k = 0 \/ k - 1 \in used
     /\ \A id \in Range(layers.keys) :
          layers.at[id] > 0
            => \E i \in DOMAIN graphData.edges :
                 /\ graphData.edges[i].target = id
                 /\ MapHas(layers, graphData.edges[i].source)
                 /\ layers.at[graphData.edges[i].source] = layers.at[id] - 1
     /\ \A j \in DOMAIN nodesByLayer :
          ~nodesByLayer[j].hole /\ nodesByLayer[j].nodes # <<>>

\* C26: after layer assignment, in topological order and in the fallback
\* order, the layer indices are 0..maxLayer with none skipped, every node at
\* layer k > 0 has a predecessor at layer k-1, and the array of layers handed
\* to optimizeLayerOrdering has no empty slot.
C26_LayersAreContiguous ==
  pc \in {"laidOut", "rendered"} => LayersAreContiguous

\* C26 on graphs whose node ids are unique.
C26_UniqueIdsLayersAreContiguous ==
  (pc \in {"laidOut", "rendered"} /\ UniqueNodeIds(graphData))
    => LayersAreContiguous
\* the sources of the edges into the node are all completed
DependenciesCompleted(id, completed) ==
  \A i \in DOMAIN graphData.edges :
    graphData.edges[i].target = id => graphData.edges[i].source \in completed

\* C27: a click on a checkbox invokes onToggleComplete(n) only when every
\* source of an edge into n is in completedNodes; a click on any other node
\* invokes nothing and leaves completedNodes as it is, completed or not.
C27_OnlyEnabledNodesToggle ==
  [][lastClick' # lastClick
       => /\ lastClick'.invoked
               => /\ DependenciesCompleted(lastClick'.node, completedNodes)
                  /\ completedNodes' \ {lastClick'.node}
                       = completedNodes \ {lastClick'.node}
          /\ ~DependenciesCompleted(lastClick'.node, completedNodes)
               => /\ ~lastClick'.invoked
                  /\ completedNodes' = completedNodes]_vars

\* a click on a completed node that invoked nothing, one of its dependencies
\* being no longer completed
C27_Witness ==
  /\ lastClick.node \in completedNodes
  /\ ~lastClick.invoked
  /\ ~DependenciesCompleted(lastClick.node, completedNodes)
\* the graph shown has a node, no directed cycle, and edges between listed
\* nodes only
ChecklistGraphIsSound ==
  /\ pc = "loaded"
  /\ Len(ChecklistNodes) > 0
  /\ ~HasDirectedCycle(graphData)
  /\ \A i \in DOMAIN graphData.edges :
       /\ graphData.edges[i].source \in Range(IdsOf(ChecklistNodes))
       /\ graphData.edges[i].target \in Range(IdsOf(ChecklistNodes))

\* with `completed` for completedNodes: some listed node is not completed
\* only if some not-completed listed node is enabled
SomeOpenNodeEnabled(completed) ==
  (\E i \in DOMAIN ChecklistNodes : ChecklistNodes[i].id \notin completed)
    => \E i \in DOMAIN ChecklistNodes :
         /\ ChecklistNodes[i].id \notin completed
         /\ isEnabled(ChecklistNodes, ChecklistEdges, completed,
                      ChecklistNodes[i].id)

\* the listed nodes that are the target of an edge from an unlisted source
\* or belong to a set of listed nodes each of which is the target of an edge
\* from the set, as the nodes of a cycle are
BlockedNodes ==
  LET listed == Range(IdsOf(ChecklistNodes))
  IN {id \in listed :
        \E S \in SUBSET listed :
          /\ id \in S
          /\ \A u \in S :
               \E i \in DOMAIN graphData.edges :
                 /\ graphData.edges[i].target = u
                 /\ \/ graphData.edges[i].source \in S
                    \/ graphData.edges[i].source \notin listed}

AcyclicWithoutDanglingEdges(graph) ==
  /\ ~HasDirectedCycle(graph)
  /\ \A i \in DOMAIN graph.edges :
       /\ graph.edges[i].source \in NodeIdSet(graph)
       /\ graph.edges[i].target \in NodeIdSet(graph)

\* `after` is `before` without the nodes of the id and without the edges to
\* or from it, everything else kept in its order
IsGraphWithout(after, before, id) ==
  /\ id \notin NodeIdSet(after)
  /\ \A i \in DOMAIN after.edges :
       after.edges[i].source # id /\ after.edges[i].target # id
  /\ IsSubsequence(after.nodes, before.nodes)
  /\ Len(after.nodes)
       = Cardinality({i \in DOMAIN before.nodes : before.nodes[i].id # id})
  /\ IsSubsequence(after.edges, before.edges)
  /\ Len(after.edges)
       = Cardinality({i \in DOMAIN before.edges :
                        /\ before.edges[i].source # id
                        /\ before.edges[i].target # id})

\* C29: handleDeleteNode(id) yields the graph without node id and without the
\* edges to or from id, the rest unchanged and in order; a graph that was
\* acyclic with no dangling edge is so after the deletion.
C29_DeleteKeepsGraphSound ==
  [][(pc = "loaded" /\ pc' = "loaded" /\ graphData' # graphData)
       => /\ \E id \in NodeIdSet(graphData) :
               IsGraphWithout(graphData', graphData, id)
          /\ AcyclicWithoutDanglingEdges(graphData)
               => AcyclicWithoutDanglingEdges(graphData')]_vars

\* a sound graph after the deletion of one node, with an edge gone and an
\* edge left
C29_Witness ==
  /\ pc = "loaded"
  /\ AcyclicWithoutDanglingEdges(Resolved)
  /\ Len(graphData.nodes) = Len(Resolved.nodes) - 1
  /\ Len(graphData.edges) >= 1
  /\ Len(graphData.edges) < Len(Resolved.edges)
\* The handler's contract, given which calls count as a failure that moves on
\* to the next candidate and which of those as a 404: the candidates are
\* tried in list order, one response is sent and only at the end, a call
\* that is no failure is the last and its answer is returned (200 for an OK
\* answer), and after a failure of the last candidate the status is 404 or
\* 500.
HandlerContract(MovesOn(_), IsNotFound(_)) ==
  LET calls == api.calls
  IN /\ Len(calls) <= Len(api.candidates)
     /\ \A i \in DOMAIN calls : calls[i].model = api.candidates[i]
     /\ Len(api.responses) = IF api.pc = "done" THEN 1 ELSE 0
     /\ \A i \in DOMAIN calls :
          IF MovesOn(calls[i])
          THEN (i = Len(calls) /\ api.pc = "done")
                 => /\ Len(calls) = Len(api.candidates)
                    /\ api.responses
                         = <<IF IsNotFound(calls[i]) THEN 404 ELSE 500>>
          ELSE /\ i = Len(calls)
               /\ api.responses = <<IF ResponseOk(calls[i].status) THEN 200
                                     ELSE calls[i].status>>

\* the fetch threw, or the answer was a 404
ThrownOr404(call) == call.fetch = "thrown" \/ call.status = 404
Answered404(call) == call.fetch = "answered" /\ call.status = 404

\* the fetch threw, the body could not be read, or the answer was a 404
ThrownUnreadOr404(call) ==
  call.fetch = "thrown" \/ call.body = "failed" \/ call.status = 404
Read404(call) == call.status = 404 /\ call.body = "read"

\* C30 as stated: only a 404 or a thrown fetch error moves on to the next
\* candidate, any other non-OK status is returned at once, the first OK
\* answer is returned as 200, and when every candidate fails the status is
\* 404 if the last failure was a 404 and 500 otherwise.
C30_OnlyFetchErrorsMoveOn == HandlerContract(ThrownOr404, Answered404)

\* What the handler does: a 404 whose body was read, a thrown fetch error or
\* a body that cannot be read moves on to the next candidate, any other
\* non-OK answer whose body was read is returned at once, the first OK answer
\* whose body was read is returned as 200, and when every candidate fails
\* the status is 404 if the last failure was a 404 whose body was read and
\* 500 otherwise.
C30_FailuresMoveOn == HandlerContract(ThrownUnreadOr404, Read404)
====
